---- MODULE Spec2Model ----
(***************************************************************************)
(* neoepiscope (src/neoepiscope/__init__.py): the haplotype extractor      *)
(* process_haplotypes, the diploid editing loop                             *)
(* get_peptides_from_transcripts, the statements of call mode in main, and *)
(* the helpers prep_hapcut_output and get_VAF_pos.                          *)
(*                                                                          *)
(* Python strings are sequences of one-character strings, so that len(),   *)
(* slicing, int() and the first-character tests are computed and not       *)
(* assumed.  A line of the HapCUT2 stream is the sequence of its           *)
(* whitespace-separated tokens.  Python lists are sequences with 0-based   *)
(* access through At(); dictionaries are functions whose DOMAIN is the key *)
(* set.                                                                     *)
(***************************************************************************)
EXTENDS Integers, Sequences, FiniteSets, TLC

\* ------------------------------------------------------------------ bounds
\* longest reference / alternate allele of the wide line pool
MaxAlleleLen == 5
\* lines read from one stream of haplotype blocks
MaxLines == 4
\* haplotypes of one transcript, mutations of one haplotype, transcripts
MaxHaplotypes == 2
MaxHapLen == 2
\* records of one VCF, lines of one VCF including its header
MaxRecords == 2
MaxVcfLines == 3

\* ------------------------------------------------------------ Python data
At(seq, i) == seq[i + 1]
PyStr(s) == [py |-> "str", v |-> s]
PyInt(n) == [py |-> "int", v |-> n]
PyFloat(n) == [py |-> "float", v |-> n]
None == [py |-> "None", v |-> 0]
EmptyDict == [k \in {} |-> <<>>]
DictGet(d, k) == IF k \in DOMAIN d THEN d[k] ELSE <<>>
DictAppend(d, k, x) ==
    [j \in (DOMAIN d) \cup {k} |-> IF j = k THEN Append(DictGet(d, k), x) ELSE d[j]]

Digits == <<"0", "1", "2", "3", "4", "5", "6", "7", "8", "9">>
IsDigit(c) == \E i \in 1..Len(Digits) : Digits[i] = c
DigitVal(c) == (CHOOSE i \in 1..Len(Digits) : Digits[i] = c) - 1
IsIntLiteral(s) == Len(s) > 0 /\ \A i \in 1..Len(s) : IsDigit(s[i])
RECURSIVE IntAcc(_, _)
IntAcc(s, acc) ==
    IF s = <<>> THEN acc ELSE IntAcc(Tail(s), 10 * acc + DigitVal(Head(s)))
\* int(token) for a token of decimal digits
IntOf(s) == IntAcc(s, 0)
\* s[n:]
SliceFrom(s, n) == IF n >= Len(s) THEN <<>> ELSE SubSeq(s, n + 1, Len(s))
StartsWith(s, p) == Len(s) >= Len(p) /\ SubSeq(s, 1, Len(p)) = p

\* ----------------------------------------------------------- the streams
BLOCK == <<"B", "L", "O", "C", "K">>
HeaderLine == << BLOCK \o <<":">>, <<"1">> >>
TerminatorLine == << <<"*", "*", "*", "*", "*", "*", "*", "*">> >>
\* line.startswith('BLOCK') and line[0] == '*'
IsHeader(ln) == Len(ln) > 0 /\ StartsWith(ln[1], BLOCK)
IsTerminator(ln) == Len(ln) > 0 /\ Len(ln[1]) > 0 /\ ln[1][1] = "*"

\* ------------------------------------------------------ the interval index
\* cds_dict: transcript id -> list of (chromosome, kind, start, end, strand).
\* T1 and T2 are the segments [90,120) and [200,210) of chromosome 1; T3 has
\* two segments and overlaps T1; T4 is on chromosome 2.
TranscriptIds == {"T1", "T2", "T3", "T4"}
Segment(chrom, start, end) == <<chrom, "CDS", start, end, "+">>
cds_dict ==
    [t \in TranscriptIds |->
        CASE t = "T1" -> <<Segment(<<"1">>, 90, 120)>>
          [] t = "T2" -> <<Segment(<<"1">>, 200, 210)>>
          [] t = "T3" -> <<Segment(<<"1">>, 104, 106), Segment(<<"1">>, 107, 112)>>
          [] OTHER    -> <<Segment(<<"2">>, 90, 120)>>]
\* one interval <<begin, end, transcript id>> per segment, per chromosome
Segments(cds) == UNION {{<<t, i>> : i \in 1..Len(cds[t])} : t \in DOMAIN cds}
cds_to_tree(cds) ==
    [c \in {cds[x[1]][x[2]][1] : x \in Segments(cds)} |->
        {<<cds[x[1]][x[2]][3], cds[x[1]][x[2]][4], x[1]>> :
            x \in {y \in Segments(cds) : cds[y[1]][y[2]][1] = c}}]
interval_dict == cds_to_tree(cds_dict)
\* every transcript with a segment that intersects [start, stop) on chrom
get_transcripts_from_tree(chrom, start, stop, cds_tree) ==
    IF chrom \notin DOMAIN cds_tree THEN {}
    ELSE {iv[3] : iv \in {x \in cds_tree[chrom] : x[1] < stop /\ start < x[2]}}

\* ------------------------------------------------------ process_haplotypes
\* stream is the history of the lines read so far
VARIABLES ph_pc, stream, line, mutation, overlapping_transcripts,
          block_transcripts, affected_transcripts, raised

ph_vars == <<ph_pc, stream, line, mutation, overlapping_transcripts,
             block_transcripts, affected_transcripts, raised>>

\* the exception in flight: its type and the tokens its message quotes
NoException == [type |-> "", args |-> <<>>]
Exception(type, args) == [type |-> type, args |-> args]

\* variants of the definitions below, each with one slip, for checking that the
\* properties depend on them
SubstitutionBranch_OneBase(tokens) ==
    [mutation_type |-> "V", pos |-> IntOf(At(tokens, 4)), ref |-> At(tokens, 5),
     alt |-> PyStr(At(tokens, 6)), size |-> Len(At(tokens, 5)),
     end |-> IntOf(At(tokens, 4)) + 1]
DeletionBranch_NoAnchor(tokens) ==
    LET deletion_size == Len(At(tokens, 5)) - Len(At(tokens, 6))
        p == IntOf(At(tokens, 4))
    IN  [mutation_type |-> "D", pos |-> p, ref |-> At(tokens, 5),
         alt |-> PyInt(deletion_size), size |-> deletion_size,
         end |-> p + deletion_size]
InsertionBranch_WholeAlt(tokens) ==
    LET insertion_size == Len(At(tokens, 6)) - Len(At(tokens, 5))
        p == IntOf(At(tokens, 4))
    IN  [mutation_type |-> "I", pos |-> p, ref |-> At(tokens, 5),
         alt |-> PyStr(At(tokens, 6)),
         size |-> insertion_size, end |-> p + 1]

\* the assignments of one branch of the if / elif / elif on the allele lengths
SubstitutionBranch(tokens) ==
    [mutation_type |-> "V", pos |-> IntOf(At(tokens, 4)), ref |-> At(tokens, 5),
     alt |-> PyStr(At(tokens, 6)), size |-> Len(At(tokens, 5)),
     end |-> IntOf(At(tokens, 4)) + Len(At(tokens, 5))]
DeletionBranch(tokens) ==
    LET deletion_size == Len(At(tokens, 5)) - Len(At(tokens, 6))
        p == IntOf(At(tokens, 4)) + (Len(At(tokens, 5)) - deletion_size)
    IN  [mutation_type |-> "D", pos |-> p, ref |-> At(tokens, 5),
         alt |-> PyInt(deletion_size), size |-> deletion_size,
         end |-> p + deletion_size]
InsertionBranch(tokens) ==
    LET insertion_size == Len(At(tokens, 6)) - Len(At(tokens, 5))
        p == IntOf(At(tokens, 4))
    IN  [mutation_type |-> "I", pos |-> p, ref |-> At(tokens, 5),
         alt |-> PyStr(SliceFrom(At(tokens, 6), Len(At(tokens, 5)))),
         size |-> insertion_size, end |-> p + 1]
ClassifyLine_Swapped(tokens) ==
    IF Len(At(tokens, 5)) = Len(At(tokens, 6)) THEN SubstitutionBranch(tokens)
    ELSE IF Len(At(tokens, 5)) > Len(At(tokens, 6))
         THEN [InsertionBranch(tokens) EXCEPT !.size = Len(At(tokens, 5)) - Len(At(tokens, 6))]
    ELSE [DeletionBranch(tokens) EXCEPT !.size = Len(At(tokens, 6)) - Len(At(tokens, 5))]
ClassifyLine(tokens) ==
    IF Len(At(tokens, 5)) = Len(At(tokens, 6)) THEN SubstitutionBranch(tokens)
    ELSE IF Len(At(tokens, 5)) > Len(At(tokens, 6)) THEN DeletionBranch(tokens)
    ELSE InsertionBranch(tokens)

\* the list appended to block_transcripts[transcript]
MutationEntry(tokens, m) ==
    <<At(tokens, 3), m.pos, m.ref, m.alt, At(tokens, 1), At(tokens, 2),
      At(tokens, 7), m.mutation_type>>

\* list.sort(key=itemgetter(1)): stable, ascending on element 1
RECURSIVE InsertByPos(_, _)
InsertByPos(sorted, x) ==
    IF sorted = <<>> THEN <<x>>
    ELSE IF At(sorted[Len(sorted)], 1) <= At(x, 1) THEN Append(sorted, x)
    ELSE Append(InsertByPos(SubSeq(sorted, 1, Len(sorted) - 1), x), sorted[Len(sorted)])
RECURSIVE SortByPos(_)
SortByPos(s) ==
    IF s = <<>> THEN <<>>
    ELSE InsertByPos(SortByPos(SubSeq(s, 1, Len(s) - 1)), s[Len(s)])

EmitHaplotypes_Unsorted(block, affected) ==
    [t \in (DOMAIN affected) \cup (DOMAIN block) |->
        IF t \in DOMAIN block
        THEN Append(DictGet(affected, t), block[t])
        ELSE affected[t]]
\* the body of "for transcript_ID in block_transcripts"
EmitHaplotypes(block, affected) ==
    [t \in (DOMAIN affected) \cup (DOMAIN block) |->
        IF t \in DOMAIN block
        THEN Append(DictGet(affected, t), SortByPos(block[t]))
        ELSE affected[t]]
AddToTranscripts_FirstOnly(block, transcripts, entry) ==
    IF transcripts = {} THEN block
    ELSE DictAppend(block, CHOOSE x \in transcripts : TRUE, entry)
\* the body of "for transcript in overlapping_transcripts"
RECURSIVE AddToTranscripts(_, _, _)
AddToTranscripts(block, transcripts, entry) ==
    IF transcripts = {} THEN block
    ELSE LET t == CHOOSE x \in transcripts : TRUE
         IN  AddToTranscripts(DictAppend(block, t, entry), transcripts \ {t}, entry)

ph_Init ==
    /\ ph_pc = "loop"
    /\ stream = <<>>
    /\ line = <<>>
    /\ mutation = [mutation_type |-> "", pos |-> 0, ref |-> <<>>, alt |-> PyStr(<<>>),
                   size |-> 0, end |-> 0]
    /\ overlapping_transcripts = {}
    /\ block_transcripts = EmptyDict
    /\ affected_transcripts = EmptyDict
    /\ raised = NoException

\* if line.startswith('BLOCK'): continue
SkipHeader(ln) ==
    /\ ph_pc = "loop" /\ Len(stream) < MaxLines
    /\ IsHeader(ln)
    /\ line' = ln /\ stream' = Append(stream, ln)
    /\ UNCHANGED <<ph_pc, mutation, overlapping_transcripts, block_transcripts,
                   affected_transcripts, raised>>
ProcessBlock_NoClear(ln) ==
    /\ ph_pc = "loop" /\ Len(stream) < MaxLines
    /\ ~IsHeader(ln) /\ IsTerminator(ln)
    /\ line' = ln /\ stream' = Append(stream, ln)
    /\ affected_transcripts' = EmitHaplotypes(block_transcripts, affected_transcripts)
    /\ UNCHANGED <<ph_pc, mutation, overlapping_transcripts, block_transcripts, raised>>
\* elif line[0] == '*'
ProcessBlock(ln) ==
    /\ ph_pc = "loop" /\ Len(stream) < MaxLines
    /\ ~IsHeader(ln) /\ IsTerminator(ln)
    /\ line' = ln /\ stream' = Append(stream, ln)
    /\ affected_transcripts' = EmitHaplotypes(block_transcripts, affected_transcripts)
    /\ block_transcripts' = EmptyDict
    /\ UNCHANGED <<ph_pc, mutation, overlapping_transcripts, raised>>
\* what the mutation branch raises on the tokens of a line: IndexError for
\* tokens[5] or tokens[6], ValueError for int(tokens[4]), IndexError for
\* tokens[7], which is only read once per overlapping transcript
MutationError(tokens) ==
    IF Len(tokens) < 7 THEN Exception("IndexError", <<>>)
    ELSE IF ~IsIntLiteral(At(tokens, 4)) THEN Exception("ValueError", <<At(tokens, 4)>>)
    ELSE IF Len(tokens) < 8
            /\ get_transcripts_from_tree(At(tokens, 3), ClassifyLine(tokens).pos,
                                         ClassifyLine(tokens).end, interval_dict) # {}
         THEN Exception("IndexError", <<>>)
    ELSE NoException
AddMutation_KeepUnmapped(ln) ==
    /\ ph_pc = "loop" /\ Len(stream) < MaxLines
    /\ ~IsHeader(ln) /\ ~IsTerminator(ln)
    /\ line' = ln /\ stream' = Append(stream, ln)
    /\ mutation' = ClassifyLine(ln)
    /\ overlapping_transcripts' =
           get_transcripts_from_tree(At(ln, 3), mutation'.pos, mutation'.end, interval_dict)
    /\ block_transcripts' =
           AddToTranscripts(block_transcripts,
                            IF overlapping_transcripts' = {} THEN {"T1"}
                            ELSE overlapping_transcripts',
                            MutationEntry(ln, mutation'))
    /\ UNCHANGED <<ph_pc, affected_transcripts, raised>>
\* else: a mutation line
AddMutation(ln) ==
    /\ ph_pc = "loop" /\ Len(stream) < MaxLines
    /\ ~IsHeader(ln) /\ ~IsTerminator(ln)
    /\ MutationError(ln) = NoException
    /\ line' = ln /\ stream' = Append(stream, ln)
    /\ mutation' = ClassifyLine(ln)
    /\ overlapping_transcripts' =
           get_transcripts_from_tree(At(ln, 3), mutation'.pos, mutation'.end, interval_dict)
    /\ block_transcripts' =
           AddToTranscripts(block_transcripts, overlapping_transcripts',
                            MutationEntry(ln, mutation'))
    /\ UNCHANGED <<ph_pc, affected_transcripts, raised>>
\* else: a mutation line on which the branch raises; the exception leaves
\* process_haplotypes and nothing is returned
FailMutation(ln) ==
    /\ ph_pc = "loop" /\ Len(stream) < MaxLines
    /\ ~IsHeader(ln) /\ ~IsTerminator(ln)
    /\ MutationError(ln) # NoException
    /\ line' = ln /\ stream' = Append(stream, ln)
    /\ raised' = MutationError(ln)
    /\ ph_pc' = "failed"
    /\ UNCHANGED <<mutation, overlapping_transcripts, block_transcripts,
                   affected_transcripts>>
ReturnHaplotypes_EmitOpenBlock ==
    /\ ph_pc = "loop"
    /\ ph_pc' = "returned"
    /\ affected_transcripts' = EmitHaplotypes(block_transcripts, affected_transcripts)
    /\ UNCHANGED <<stream, line, mutation, overlapping_transcripts, block_transcripts,
                   raised>>
\* the stream ends: return affected_transcripts
ReturnHaplotypes ==
    /\ ph_pc = "loop"
    /\ ph_pc' = "returned"
    /\ UNCHANGED <<stream, line, mutation, overlapping_transcripts, block_transcripts,
                   affected_transcripts, raised>>

\* ----------------------------------------------------------- Transcript
\* The Transcript object (module transcript): a copy of the coding sequence
\* is the list of the edits made to it since it was last the reference.
Transcript(cds, transcript_id) ==
    [transcript_id |-> transcript_id, chrom |-> cds[1][1], edits |-> <<>>]
TranscriptEdit(tr, seq, p, mutation_type, mutation_class, vaf) ==
    [tr EXCEPT !.edits = Append(@, [seq |-> seq, pos |-> p, mutation_type |-> mutation_type,
                                    mutation_class |-> mutation_class, vaf |-> vaf])]
TranscriptReset(tr, reference) ==
    IF reference THEN [tr EXCEPT !.edits = <<>>] ELSE tr
\* neopeptides(): peptide -> list of metadata tuples (chromosome, position,
\* reference, alternate, kind, VAF), one tuple per contributing somatic
\* mutation; the empty mapping when the copy holds no somatic edit.  A peptide
\* is named by the edits (kind, position, allele) its window covers: the
\* window of one somatic edit alone, and the window over all edits of the copy.
EditSig(e) == <<e.mutation_type, e.pos, e.seq>>
PeptideOf(e) == <<EditSig(e)>>
WholePeptide(tr) == [i \in 1..Len(tr.edits) |-> EditSig(tr.edits[i])]
MetaOf(tr, e) == <<tr.chrom, e.pos, <<>>, e.seq, e.mutation_type, e.vaf>>
RECURSIVE Distinct(_)
Distinct(s) ==
    IF s = <<>> THEN <<>>
    ELSE LET d == Distinct(SubSeq(s, 1, Len(s) - 1))
         IN  IF \E i \in 1..Len(d) : d[i] = s[Len(s)] THEN d ELSE Append(d, s[Len(s)])
SelectEdits(tr, pep) ==
    SelectSeq(tr.edits, LAMBDA e : e.mutation_class = "S"
                                   /\ (PeptideOf(e) = pep \/ WholePeptide(tr) = pep))
MapMeta(tr, es) == [i \in 1..Len(es) |-> MetaOf(tr, es[i])]
TranscriptNeopeptides(tr) ==
    LET somatic == {j \in 1..Len(tr.edits) : tr.edits[j].mutation_class = "S"}
    IN  [pep \in IF somatic = {} THEN {}
                 ELSE {PeptideOf(tr.edits[i]) : i \in somatic} \cup {WholePeptide(tr)} |->
            Distinct(MapMeta(tr, SelectEdits(tr, pep)))]

\* ------------------------------------------- get_peptides_from_transcripts
VARIABLES gp_pc, VAF_pos, todo, transcriptA, transcriptB, nhap, ht, mi,
          somatic_in_haplotype, neoepitopes, enumerated

gp_vars == <<gp_pc, VAF_pos, todo, transcriptA, transcriptB, nhap, ht, mi,
             somatic_in_haplotype, neoepitopes, enumerated>>

\* ------------------------------------------------------- main, call mode
VARIABLES main_pc, kmer_size, upstream_atgs, size_list,
          only_novel_upstream, only_downstream, only_reference

main_vars == <<main_pc, kmer_size, upstream_atgs, size_list,
               only_novel_upstream, only_downstream, only_reference>>

\* ----------------------------- prep_hapcut_output, get_VAF_pos, one transcript
\* prep_hapcut_output: the two input files, the set of phased alleles, the
\* lines printed, and the counter of VCF records
VARIABLES prep_pc, hapcut2_stream, vcf_stream, phased, output_stream, counter
prep_vars == <<prep_pc, hapcut2_stream, vcf_stream, phased, output_stream, counter>>
\* get_VAF_pos: the lines of the VCF, the number of lines read, and the locals
VARIABLES gv_pc, VCF, gv_read, VAF_check, gv_VAF_pos
gv_vars == <<gv_pc, VCF, gv_read, VAF_check, gv_VAF_pos>>
\* get_peptides_from_transcripts on one transcript: its haplotype list and the
\* results for the list and for the list without its somatic-free haplotypes
VARIABLES one_pc, one_VAF_pos, haplotypes, one_neoepitopes, one_neoepitopes_somatic
one_vars == <<one_pc, one_VAF_pos, haplotypes, one_neoepitopes, one_neoepitopes_somatic>>
\* get_peptides_from_transcripts on a set of transcripts: the haplotype lists,
\* the results in the two processing orders, and of each transcript alone
VARIABLES ts_pc, ts_VAF_pos, relevant_transcripts, ts_neoepitopes, ts_reversed, ts_alone
ts_vars == <<ts_pc, ts_VAF_pos, relevant_transcripts, ts_neoepitopes, ts_reversed, ts_alone>>
\* get_affinity_mhcflurry: the requested score kinds, the peptides, the lines
\* of the predictor's output after its header, the lines read, and the results
VARIABLES fl_pc, fl_allele, scores, fl_peptides, mhc_out, fl_read, score_dict, affinities
fl_vars == <<fl_pc, fl_allele, scores, fl_peptides, mhc_out, fl_read, score_dict, affinities>>
\* main, the check of one affinity predictor: the tool, its scoring list, the
\* position of the iterator of "for method in scoring", and tool_dict
VARIABLES tv_pc, tool, program, acceptable_scoring, scoring, method_index, tool_dict
tv_vars == <<tv_pc, tool, program, acceptable_scoring, scoring, method_index, tool_dict>>
late_vars == <<ts_vars, fl_vars, tv_vars>>
aux_vars == <<prep_vars, gv_vars, one_vars, late_vars>>
vars == <<ph_vars, gp_vars, main_vars, aux_vars>>

\* str.strip(c), str.split(sep), float()
RECURSIVE LStrip(_, _)
LStrip(s, c) == IF s # <<>> /\ Head(s) = c THEN LStrip(Tail(s), c) ELSE s
RECURSIVE RStrip(_, _)
RStrip(s, c) ==
    IF s # <<>> /\ s[Len(s)] = c THEN RStrip(SubSeq(s, 1, Len(s) - 1), c) ELSE s
Strip(s, c) == RStrip(LStrip(s, c), c)
RECURSIVE Split(_, _)
Split(s, sep) ==
    IF \A i \in 1..Len(s) : s[i] # sep THEN <<s>>
    ELSE LET k == CHOOSE i \in 1..Len(s) : s[i] = sep /\ \A j \in 1..(i - 1) : s[j] # sep
         IN  <<SubSeq(s, 1, k - 1)>> \o Split(SubSeq(s, k + 1, Len(s)), sep)
FloatOf(s) == PyFloat(IntOf(s))

MutationClass_FirstChar(mut) ==
    IF At(mut, 6)[1] = "*" THEN "G" ELSE "S"
\* mutation[6][-1] == '*'
MutationClass(mut) ==
    IF At(mut, 6)[Len(At(mut, 6))] = "*" THEN "G" ELSE "S"
MutationVAF_AlwaysNone(mut, vaf_pos) == None
\* float(mutation[6].strip('*').split(':')[VAF_pos].strip('%')), or None
MutationVAF(mut, vaf_pos) ==
    IF vaf_pos # None
    THEN FloatOf(Strip(At(Split(Strip(At(mut, 6), "*"), ":"), vaf_pos.v), "%"))
    ELSE None
VAFReadable(mut, vaf_pos) ==
    \/ vaf_pos = None
    \/ /\ vaf_pos.v < Len(Split(Strip(At(mut, 6), "*"), ":"))
       /\ IsIntLiteral(Strip(At(Split(Strip(At(mut, 6), "*"), ":"), vaf_pos.v), "%"))

\* the edits of one mutation on the two copies
EditCopyA(tr, mut, vaf_pos) ==
    IF At(mut, 4) = <<"1">>
    THEN TranscriptEdit(tr, At(mut, 3), At(mut, 1), At(mut, 7), MutationClass(mut),
                        MutationVAF(mut, vaf_pos))
    ELSE tr
EditCopyB_FlagA(tr, mut, vaf_pos) ==
    IF At(mut, 4) = <<"1">>
    THEN TranscriptEdit(tr, At(mut, 3), At(mut, 1), At(mut, 7), MutationClass(mut),
                        MutationVAF(mut, vaf_pos))
    ELSE tr
EditCopyB(tr, mut, vaf_pos) ==
    IF At(mut, 5) = <<"1">>
    THEN TranscriptEdit(tr, At(mut, 3), At(mut, 1), At(mut, 7), MutationClass(mut),
                        MutationVAF(mut, vaf_pos))
    ELSE tr

\* "Store neoepitopes and their metadata" for the peptides of one copy
RECURSIVE AppendNew(_, _)
AppendNew(lst, items) ==
    IF items = <<>> THEN lst
    ELSE AppendNew(IF \E i \in 1..Len(lst) : lst[i] = Head(items)
                   THEN lst ELSE Append(lst, Head(items)), Tail(items))
AdjMeta(metas, transcript_id) == [i \in 1..Len(metas) |-> metas[i] \o <<transcript_id>>]
StorePeptides_NoDedup(neo, peptides, transcript_id) ==
    [pep \in (DOMAIN neo) \cup (DOMAIN peptides) |->
        IF pep \in DOMAIN peptides
        THEN DictGet(neo, pep) \o AdjMeta(peptides[pep], transcript_id)
        ELSE neo[pep]]
StorePeptides(neo, peptides, transcript_id) ==
    [pep \in (DOMAIN neo) \cup (DOMAIN peptides) |->
        IF pep \in DOMAIN peptides
        THEN AppendNew(DictGet(neo, pep), AdjMeta(peptides[pep], transcript_id))
        ELSE neo[pep]]
\* the body of "if somatic_in_haplotype": copy A's peptides, then copy B's
ExtractNeoepitopes(neo, trA, trB) ==
    StorePeptides(StorePeptides(neo, TranscriptNeopeptides(trA), trA.transcript_id),
                  TranscriptNeopeptides(trB), trB.transcript_id)

NoTranscript == [transcript_id |-> "", chrom |-> <<>>, edits |-> <<>>]

\* ------------------------------------------------------------- the inputs
Bases == <<"A", "C", "G", "T">>
\* the allele of length n that starts at base b and runs through A, C, G, T
AlleleOf(b, n) == [i \in 1..n |-> Bases[((b + i) % 4) + 1]]
Alleles == {AlleleOf(b, n) : b \in {0, 1}, n \in 1..MaxAlleleLen}
Somatic == <<"0", "/", "1", ":", "2", "5", "%">>
Germline == <<"0", "/", "1", ":", "3", "0", "%", "*">>
MutLine(a, b, chrom, p, r, al, genotype) ==
    << <<"7">>, <<a>>, <<b>>, chrom, p, r, al, genotype>>
\* every pair of alleles at a few positions: the lines of the classification
WideLines ==
    {MutLine("1", "0", c, p, r, al, Somatic) :
        c \in {<<"1">>, <<"2">>},
        p \in {<<"8", "9">>, <<"1", "0", "0">>, <<"1", "1", "8">>, <<"2", "0", "5">>},
        r \in Alleles, al \in Alleles}
\* the mutation lines of the block streams
BlockLines ==
    { MutLine("1", "0", <<"1">>, <<"1", "0", "0">>, AlleleOf(0, 5), AlleleOf(1, 5), Somatic),
      MutLine("0", "1", <<"1">>, <<"9", "9">>, AlleleOf(0, 3), AlleleOf(0, 1), Germline),
      MutLine("1", "1", <<"1">>, <<"9", "5">>, AlleleOf(0, 1), AlleleOf(1, 1), Somatic),
      MutLine("1", "0", <<"1">>, <<"1", "0", "8">>, AlleleOf(0, 1), AlleleOf(0, 2), Germline),
      MutLine("0", "1", <<"1">>, <<"2", "0", "5">>, AlleleOf(0, 1), AlleleOf(0, 3), Somatic),
      MutLine("1", "0", <<"1">>, <<"1", "5", "0">>, AlleleOf(0, 1), AlleleOf(1, 1), Somatic),
      MutLine("1", "0", <<"2">>, <<"1", "0", "0">>, AlleleOf(0, 2), AlleleOf(0, 1), Somatic) }
\* the mutation lines behind the haplotypes given to the editing loop
PepLines ==
    { MutLine("1", "0", <<"1">>, <<"1", "0", "0">>, AlleleOf(0, 1), AlleleOf(1, 1), Somatic),
      MutLine("0", "1", <<"1">>, <<"1", "0", "0">>, AlleleOf(0, 1), AlleleOf(1, 1), Somatic),
      MutLine("1", "1", <<"1">>, <<"1", "0", "0">>, AlleleOf(0, 1), AlleleOf(1, 1), Germline),
      MutLine("1", "0", <<"1">>, <<"1", "0", "4">>, AlleleOf(0, 1), AlleleOf(0, 2), Germline),
      MutLine("0", "1", <<"1">>, <<"1", "0", "4">>, AlleleOf(0, 1), AlleleOf(0, 2), Germline),
      MutLine("1", "1", <<"1">>, <<"1", "0", "4">>, AlleleOf(0, 1), AlleleOf(0, 2), Somatic) }
\* a well-formed line and lines that are not: a position that is no integer,
\* six fields, seven fields inside T1, seven fields outside every transcript
MalformedLines ==
    { MutLine("1", "0", <<"1">>, <<"1", "0", "0">>, AlleleOf(0, 1), AlleleOf(1, 1), Somatic),
      MutLine("1", "0", <<"1">>, <<"1", "x", "0">>, AlleleOf(0, 1), AlleleOf(1, 1), Somatic),
      SubSeq(MutLine("1", "0", <<"1">>, <<"1", "0", "0">>, AlleleOf(0, 1), AlleleOf(1, 1), Somatic), 1, 6),
      SubSeq(MutLine("1", "0", <<"1">>, <<"1", "0", "0">>, AlleleOf(0, 1), AlleleOf(1, 1), Somatic), 1, 7),
      SubSeq(MutLine("1", "0", <<"1">>, <<"1", "5", "0">>, AlleleOf(0, 1), AlleleOf(1, 1), Somatic), 1, 7) }
PepTranscripts == {"T1", "T3"}
\* what process_haplotypes records for transcript t from the lines of a pool
EntriesOf(pool, t) ==
    {MutationEntry(ln, ClassifyLine(ln)) :
        ln \in {l \in pool : t \in get_transcripts_from_tree(
                    At(l, 3), ClassifyLine(l).pos, ClassifyLine(l).end, interval_dict)}}
IsSortedByPos(h) == \A i \in 1..(Len(h) - 1) : At(h[i], 1) <= At(h[i + 1], 1)
DistinctPositions(h) == \A i, j \in 1..Len(h) : At(h[i], 1) = At(h[j], 1) => i = j
\* the haplotypes process_haplotypes can return for transcript t (sampled: one
\* mutation per position)
HaplotypePool ==
    [t \in PepTranscripts |->
        {h \in UNION {[1..n -> EntriesOf(PepLines, t)] : n \in 1..MaxHapLen} :
            IsSortedByPos(h) /\ DistinctPositions(h)}]

gp_Idle ==
    /\ gp_pc = "idle"
    /\ VAF_pos = None
    /\ todo = {}
    /\ transcriptA = NoTranscript /\ transcriptB = NoTranscript
    /\ nhap = 0 /\ ht = <<>> /\ mi = 0
    /\ somatic_in_haplotype = FALSE
    /\ neoepitopes = EmptyDict
    /\ enumerated = FALSE
gp_Init ==
    /\ gp_pc = "transcripts"
    /\ VAF_pos \in {None, PyInt(1)}
    /\ todo \in SUBSET PepTranscripts
    /\ transcriptA = NoTranscript /\ transcriptB = NoTranscript
    /\ nhap = 0 /\ ht = <<>> /\ mi = 0
    /\ somatic_in_haplotype = FALSE
    /\ neoepitopes = EmptyDict
    /\ enumerated = FALSE

\* for affected_transcript in relevant_transcripts: the two Transcript objects
BeginTranscript(t) ==
    /\ gp_pc = "transcripts" /\ t \in todo
    /\ todo' = todo \ {t}
    /\ transcriptA' = Transcript(cds_dict[t], t)
    /\ transcriptB' = Transcript(cds_dict[t], t)
    /\ nhap' = 0
    /\ gp_pc' = "haplotypes"
    /\ UNCHANGED <<VAF_pos, ht, mi, somatic_in_haplotype, neoepitopes, enumerated>>
\* for ht in haplotypes: somatic_in_haplotype = False
BeginHaplotype(h) ==
    /\ gp_pc = "haplotypes" /\ nhap < MaxHaplotypes
    /\ ht' = h
    /\ mi' = 0 /\ nhap' = nhap + 1
    /\ somatic_in_haplotype' = FALSE
    /\ gp_pc' = "mutations"
    /\ UNCHANGED <<VAF_pos, todo, transcriptA, transcriptB, neoepitopes, enumerated>>
EditMutation_Reversed ==
    /\ gp_pc = "mutations" /\ mi < Len(ht)
    /\ VAFReadable(At(ht, Len(ht) - 1 - mi), VAF_pos)
    /\ somatic_in_haplotype' =
           (somatic_in_haplotype \/ MutationClass(At(ht, Len(ht) - 1 - mi)) = "S")
    /\ transcriptA' = EditCopyA(transcriptA, At(ht, Len(ht) - 1 - mi), VAF_pos)
    /\ transcriptB' = EditCopyB(transcriptB, At(ht, Len(ht) - 1 - mi), VAF_pos)
    /\ mi' = mi + 1
    /\ UNCHANGED <<gp_pc, VAF_pos, todo, nhap, ht, neoepitopes, enumerated>>
\* for mutation in ht: classify, read the VAF, edit the copies
EditMutation ==
    /\ gp_pc = "mutations" /\ mi < Len(ht)
    /\ VAFReadable(At(ht, mi), VAF_pos)
    /\ somatic_in_haplotype' = (somatic_in_haplotype \/ MutationClass(At(ht, mi)) = "S")
    /\ transcriptA' = EditCopyA(transcriptA, At(ht, mi), VAF_pos)
    /\ transcriptB' = EditCopyB(transcriptB, At(ht, mi), VAF_pos)
    /\ mi' = mi + 1
    /\ UNCHANGED <<gp_pc, VAF_pos, todo, nhap, ht, neoepitopes, enumerated>>
FinishHaplotype_ResetIfSomatic ==
    /\ gp_pc = "mutations" /\ mi = Len(ht)
    /\ neoepitopes' = IF somatic_in_haplotype
                      THEN ExtractNeoepitopes(neoepitopes, transcriptA, transcriptB)
                      ELSE neoepitopes
    /\ enumerated' = somatic_in_haplotype
    /\ transcriptA' = TranscriptReset(transcriptA, somatic_in_haplotype)
    /\ transcriptB' = TranscriptReset(transcriptB, somatic_in_haplotype)
    /\ gp_pc' = "haplotypes"
    /\ UNCHANGED <<VAF_pos, todo, nhap, ht, mi, somatic_in_haplotype>>
FinishHaplotype_AlwaysEnumerate ==
    /\ gp_pc = "mutations" /\ mi = Len(ht)
    /\ neoepitopes' = ExtractNeoepitopes(neoepitopes, transcriptA, transcriptB)
    /\ enumerated' = TRUE
    /\ transcriptA' = TranscriptReset(transcriptA, TRUE)
    /\ transcriptB' = TranscriptReset(transcriptB, TRUE)
    /\ gp_pc' = "haplotypes"
    /\ UNCHANGED <<VAF_pos, todo, nhap, ht, mi, somatic_in_haplotype>>
\* after the last mutation: enumerate if somatic, then reset both copies
FinishHaplotype ==
    /\ gp_pc = "mutations" /\ mi = Len(ht)
    /\ neoepitopes' = IF somatic_in_haplotype
                      THEN ExtractNeoepitopes(neoepitopes, transcriptA, transcriptB)
                      ELSE neoepitopes
    /\ enumerated' = somatic_in_haplotype
    /\ transcriptA' = TranscriptReset(transcriptA, TRUE)
    /\ transcriptB' = TranscriptReset(transcriptB, TRUE)
    /\ gp_pc' = "haplotypes"
    /\ UNCHANGED <<VAF_pos, todo, nhap, ht, mi, somatic_in_haplotype>>
\* the transcript's haplotype list is exhausted
EndTranscript ==
    /\ gp_pc = "haplotypes" /\ nhap >= 1
    /\ gp_pc' = "transcripts"
    /\ UNCHANGED <<VAF_pos, todo, transcriptA, transcriptB, nhap, ht, mi,
                   somatic_in_haplotype, neoepitopes, enumerated>>
\* return neoepitopes
ReturnNeoepitopes ==
    /\ gp_pc = "transcripts" /\ todo = {}
    /\ gp_pc' = "returned"
    /\ UNCHANGED <<VAF_pos, todo, transcriptA, transcriptB, nhap, ht, mi,
                   somatic_in_haplotype, neoepitopes, enumerated>>

\* ------------------------------------------------------- main, call mode
\* a local of main that no statement has assigned yet
Unbound == [bound |-> FALSE, v |-> <<>>]
Bound(v) == [bound |-> TRUE, v |-> v]
\* a < b for two str of decimal digits, as list.sort() compares them
RECURSIVE StrLess(_, _)
StrLess(a, b) ==
    IF b = <<>> THEN FALSE
    ELSE IF a = <<>> THEN TRUE
    ELSE IF Head(a) # Head(b) THEN DigitVal(Head(a)) < DigitVal(Head(b))
    ELSE StrLess(Tail(a), Tail(b))
RECURSIVE InsertStr(_, _)
InsertStr(sorted, x) ==
    IF sorted = <<>> THEN <<x>>
    ELSE IF StrLess(x, Head(sorted)) THEN <<x>> \o sorted
    ELSE <<Head(sorted)>> \o InsertStr(Tail(sorted), x)
RECURSIVE SortStrings(_)
SortStrings(l) ==
    IF l = <<>> THEN <<>> ELSE InsertStr(SortStrings(SubSeq(l, 1, Len(l) - 1)), l[Len(l)])
\* size_list = args.kmer_size.split(','); size_list.sort(); then int() of each
ParseSizeList(ks) ==
    LET sorted == SortStrings(Split(ks, ","))
    IN  [i \in 1..Len(sorted) |-> IntOf(sorted[i])]
\* min_size=size_list[0], max_size=size_list[-1]
EnumeratorMinSize(sl) == At(sl, 0)
EnumeratorMaxSize(sl) == At(sl, Len(sl) - 1)

\* the values of --kmer-size and --upstream_atgs (both of type str)
KmerSizes ==
    { <<"8", ",", "1", "1">>, <<"9", ",", "1", "0">>, <<"1", "0", ",", "8", ",", "9">>,
      <<"8", ",", "9">>, <<"9">> }
UpstreamAtgs == {"novel", "all", "none", "reference", "every"}
\* the mutation lines of the merged HapCUT2 output
MainLines ==
    { MutLine("1", "0", <<"1">>, <<"1", "0", "0">>, AlleleOf(0, 1), AlleleOf(1, 1), Somatic),
      MutLine("1", "1", <<"1">>, <<"1", "0", "4">>, AlleleOf(0, 1), AlleleOf(0, 2), Germline) }

main_Idle ==
    /\ main_pc = "idle"
    /\ kmer_size = <<>> /\ upstream_atgs = ""
    /\ size_list = Unbound
    /\ only_novel_upstream = FALSE /\ only_downstream = FALSE /\ only_reference = FALSE
\* args = parser.parse_args()
main_Init ==
    /\ main_pc = "get_VAF_pos"
    /\ kmer_size \in KmerSizes
    /\ upstream_atgs \in UpstreamAtgs
    /\ size_list = Unbound
    /\ only_novel_upstream = FALSE /\ only_downstream = FALSE /\ only_reference = FALSE
\* VAF_pos = get_VAF_pos(args.vcf)
CallGetVAFPos ==
    /\ main_pc = "get_VAF_pos"
    /\ VAF_pos' \in {None, PyInt(1)}
    /\ main_pc' = "kmer_size"
    /\ UNCHANGED <<kmer_size, upstream_atgs, size_list,
                   only_novel_upstream, only_downstream, only_reference>>
    /\ UNCHANGED <<gp_pc, todo, transcriptA, transcriptB, nhap, ht, mi,
                   somatic_in_haplotype, neoepitopes, enumerated>>
    /\ UNCHANGED ph_vars
    /\ UNCHANGED aux_vars
\* if ',' in args.kmer_size: ...
ParseKmerSize ==
    /\ main_pc = "kmer_size"
    /\ size_list' = IF \E i \in 1..Len(kmer_size) : kmer_size[i] = ","
                    THEN Bound(ParseSizeList(kmer_size))
                    ELSE size_list
    /\ main_pc' = "process_haplotypes"
    /\ UNCHANGED <<kmer_size, upstream_atgs,
                   only_novel_upstream, only_downstream, only_reference>>
    /\ UNCHANGED <<ph_vars, gp_vars>>
    /\ UNCHANGED aux_vars
SelectUpstreamAtgs_NoneAsAll ==
    /\ main_pc = "process_haplotypes" /\ ph_pc = "returned"
    /\ IF upstream_atgs \in {"novel", "all", "none", "reference"}
       THEN /\ only_novel_upstream' = (upstream_atgs = "novel")
            /\ only_downstream' = FALSE
            /\ only_reference' = (upstream_atgs = "reference")
            /\ main_pc' = "get_peptides"
            /\ UNCHANGED raised
       ELSE /\ raised' = Exception("RuntimeError", <<>>)
            /\ main_pc' = "failed"
            /\ UNCHANGED <<only_novel_upstream, only_downstream, only_reference>>
    /\ UNCHANGED <<kmer_size, upstream_atgs, size_list>>
    /\ UNCHANGED <<ph_pc, stream, line, mutation, overlapping_transcripts,
                   block_transcripts, affected_transcripts>>
    /\ UNCHANGED gp_vars
    /\ UNCHANGED aux_vars
\* the if/elif chain over args.upstream_atgs, after process_haplotypes returned
SelectUpstreamAtgs ==
    /\ main_pc = "process_haplotypes" /\ ph_pc = "returned"
    /\ IF upstream_atgs \in {"novel", "all", "none", "reference"}
       THEN /\ only_novel_upstream' = (upstream_atgs = "novel")
            /\ only_downstream' = (upstream_atgs = "none")
            /\ only_reference' = (upstream_atgs = "reference")
            /\ main_pc' = "get_peptides"
            /\ UNCHANGED raised
       ELSE /\ raised' = Exception("RuntimeError", <<>>)
            /\ main_pc' = "failed"
            /\ UNCHANGED <<only_novel_upstream, only_downstream, only_reference>>
    /\ UNCHANGED <<kmer_size, upstream_atgs, size_list>>
    /\ UNCHANGED <<ph_pc, stream, line, mutation, overlapping_transcripts,
                   block_transcripts, affected_transcripts>>
    /\ UNCHANGED gp_vars
    /\ UNCHANGED aux_vars
\* neoepitopes = get_peptides_from_transcripts(relevant_transcripts, ..., size_list)
CallGetPeptides ==
    /\ main_pc = "get_peptides" /\ gp_pc = "idle"
    /\ IF size_list.bound
       THEN /\ gp_pc' = "transcripts"
            /\ todo' = DOMAIN affected_transcripts
            /\ UNCHANGED <<main_pc, raised>>
       ELSE /\ raised' = Exception("UnboundLocalError", <<>>)
            /\ main_pc' = "failed"
            /\ UNCHANGED <<gp_pc, todo>>
    /\ UNCHANGED <<kmer_size, upstream_atgs, size_list,
                   only_novel_upstream, only_downstream, only_reference>>
    /\ UNCHANGED <<ph_pc, stream, line, mutation, overlapping_transcripts,
                   block_transcripts, affected_transcripts>>
    /\ UNCHANGED <<VAF_pos, transcriptA, transcriptB, nhap, ht, mi,
                   somatic_in_haplotype, neoepitopes, enumerated>>
    /\ UNCHANGED aux_vars
\* get_peptides_from_transcripts returned
FinishMain ==
    /\ main_pc = "get_peptides" /\ gp_pc = "returned"
    /\ main_pc' = "done"
    /\ UNCHANGED <<kmer_size, upstream_atgs, size_list,
                   only_novel_upstream, only_downstream, only_reference>>
    /\ UNCHANGED <<ph_vars, gp_vars>>
    /\ UNCHANGED aux_vars

\* ------------------------------------------------------ prep_hapcut_output
\* str(n) for n >= 0
RECURSIVE StrOfInt(_)
StrOfInt(n) == IF n < 10 THEN <<Digits[n + 1]>> ELSE StrOfInt(n \div 10) \o <<Digits[(n % 10) + 1]>>
NA == <<"N", "A">>
UnphasedHeader == << BLOCK \o <<":">>, <<"u", "n", "p", "h", "a", "s", "e", "d">> >>
\* phased[(tokens[3], int(tokens[4]))].add((tokens[5], tokens[6])) for every
\* line that is neither a terminator nor a header; the set of the
\* (chromosome, position, ref, alt) so recorded
RECURSIVE PhasedOf(_)
PhasedOf(lines) ==
    IF lines = <<>> THEN {}
    ELSE LET ln == lines[Len(lines)]
             before == PhasedOf(SubSeq(lines, 1, Len(lines) - 1))
         IN  IF ~IsTerminator(ln) /\ ~IsHeader(ln)
             THEN before \cup {<<At(ln, 3), IntOf(At(ln, 4)), At(ln, 5), At(ln, 6)>>}
             ELSE before
UnphasedBlock_BothCopies(tokens, allele, n) ==
    << UnphasedHeader,
       << StrOfInt(n), <<"1">>, <<"1">>, At(tokens, 0), StrOfInt(IntOf(At(tokens, 1))),
          At(tokens, 3), At(tokens, 4), At(tokens, 9), NA, NA >>,
       TerminatorLine >>
\* the three lines printed for an allele that is not phased
UnphasedBlock(tokens, allele, n) ==
    << UnphasedHeader,
       << StrOfInt(n), <<"1">>, <<"0">>, At(tokens, 0), StrOfInt(IntOf(At(tokens, 1))),
          At(tokens, 3), At(tokens, 4), At(tokens, 9), NA, NA >>,
       TerminatorLine >>
\* for allele in alt_alleles: print the block unless (ref, allele) is phased
RECURSIVE InjectAlleles(_, _, _, _)
InjectAlleles(tokens, alt_alleles, ph, n) ==
    IF alt_alleles = <<>> THEN <<>>
    ELSE (IF <<At(tokens, 0), IntOf(At(tokens, 1)), At(tokens, 3), Head(alt_alleles)>> \notin ph
          THEN UnphasedBlock(tokens, Head(alt_alleles), n)
          ELSE <<>>)
         \o InjectAlleles(tokens, Tail(alt_alleles), ph, n)

\* the inputs: HapCUT2 outputs and VCF records (CHROM POS ID REF ALT QUAL FILTER
\* INFO FORMAT SAMPLE)
VcfRecord(chrom, p, r, al) ==
    << chrom, p, <<".">>, r, al, <<".">>, <<".">>, <<".">>,
       <<"G", "T", ":", "F", "R", "E", "Q">>, Somatic >>
VcfRecords ==
    << VcfRecord(<<"1">>, <<"1", "0", "0">>, <<"A">>, <<"C">>),
       VcfRecord(<<"1">>, <<"1", "0", "4">>, <<"A">>, <<"C", ",", "G">>),
       VcfRecord(<<"1">>, <<"1", "5", "0">>, <<"A">>, <<"G">>),
       VcfRecord(<<"2">>, <<"1", "0", "0">>, <<"A">>, <<"G", ",", "T">>) >>
PhasedLine(p, r, al) == MutLine("1", "0", <<"1">>, p, r, al, Somatic)
Hapcut2Outputs ==
    { <<>>,
      <<HeaderLine, PhasedLine(<<"1", "0", "0">>, <<"A">>, <<"C">>), TerminatorLine>>,
      <<HeaderLine, PhasedLine(<<"1", "0", "4">>, <<"A">>, <<"C">>), TerminatorLine>>,
      <<HeaderLine, PhasedLine(<<"1", "0", "0">>, <<"A">>, <<"C">>),
        PhasedLine(<<"1", "0", "4">>, <<"A">>, <<"G">>), TerminatorLine>> }
\* the records of a VCF, in the order of the file
Vcfs ==
    {v \in UNION {[1..n -> 1..Len(VcfRecords)] : n \in 1..MaxRecords} :
        \A i \in 1..(Len(v) - 1) : v[i] < v[i + 1]}

prep_Idle ==
    /\ prep_pc = "idle"
    /\ hapcut2_stream = <<>> /\ vcf_stream = <<>>
    /\ phased = {} /\ output_stream = <<>> /\ counter = 0
prep_Init ==
    /\ prep_pc = "hapcut2"
    /\ hapcut2_stream \in Hapcut2Outputs
    /\ \E v \in Vcfs : vcf_stream = [i \in 1..Len(v) |-> VcfRecords[v[i]]]
    /\ phased = {} /\ output_stream = <<>> /\ counter = 0
\* for line in hapcut2_stream: ...; print('********'); skip the VCF header
CopyHapcut2 ==
    /\ prep_pc = "hapcut2"
    /\ phased' = PhasedOf(hapcut2_stream)
    /\ output_stream' = hapcut2_stream \o <<TerminatorLine>>
    /\ counter' = 1
    /\ prep_pc' = "vcf"
    /\ UNCHANGED <<hapcut2_stream, vcf_stream>>
\* while line: one record of the VCF
InjectUnphased ==
    /\ prep_pc = "vcf" /\ counter <= Len(vcf_stream)
    /\ output_stream' = output_stream
            \o InjectAlleles(vcf_stream[counter], Split(At(vcf_stream[counter], 4), ","),
                             phased, counter)
    /\ counter' = counter + 1
    /\ UNCHANGED <<prep_pc, hapcut2_stream, vcf_stream, phased>>
\* the VCF is exhausted
prep_Return ==
    /\ prep_pc = "vcf" /\ counter > Len(vcf_stream)
    /\ prep_pc' = "returned"
    /\ UNCHANGED <<hapcut2_stream, vcf_stream, phased, output_stream, counter>>
\* the whole while loop over the records of the VCF, from record n on
RECURSIVE InjectRecords(_, _, _)
InjectRecords(v, ph, n) ==
    IF n > Len(v) THEN <<>>
    ELSE InjectAlleles(v[n], Split(At(v[n], 4), ","), ph, n) \o InjectRecords(v, ph, n + 1)
\* the file prep_hapcut_output writes for a HapCUT2 output and a VCF
PrepOutput(h, v) == h \o <<TerminatorLine>> \o InjectRecords(v, PhasedOf(h), 1)
\* the inputs of prep mode followed by call mode: records with a heterozygous,
\* a homozygous and a germline genotype field
Homozygous == <<"1", "/", "1", ":", "2", "5", "%">>
PipelineRecords ==
    << VcfRecord(<<"1">>, <<"1", "0", "0">>, <<"A">>, <<"C">>),
       [VcfRecord(<<"1">>, <<"1", "0", "0">>, <<"A">>, <<"C">>) EXCEPT ![10] = Homozygous],
       [VcfRecord(<<"1">>, <<"1", "0", "4">>, <<"A">>, <<"A", "G">>) EXCEPT ![10] = Germline],
       VcfRecord(<<"1">>, <<"1", "5", "0">>, <<"A">>, <<"G">>) >>
PipelineHapcut2Outputs ==
    { <<>>,
      <<HeaderLine, PhasedLine(<<"1", "0", "0">>, <<"A">>, <<"C">>), TerminatorLine>> }
\* prep mode starts on a HapCUT2 output and a VCF whose merge call mode reads whole
pipeline_Init ==
    /\ prep_pc = "hapcut2"
    /\ hapcut2_stream \in PipelineHapcut2Outputs
    /\ \E v \in UNION {[1..n -> 1..Len(PipelineRecords)] : n \in 1..MaxRecords} :
          /\ \A i \in 1..(Len(v) - 1) : v[i] < v[i + 1]
          /\ vcf_stream = [i \in 1..Len(v) |-> PipelineRecords[v[i]]]
    /\ Len(PrepOutput(hapcut2_stream, vcf_stream)) <= MaxLines
    /\ phased = {} /\ output_stream = <<>> /\ counter = 0
\* ------------------------------------------------------------- get_VAF_pos
\* a local that no statement has assigned yet
Unassigned == [py |-> "unbound", v |-> 0]
FREQ == <<"F", "R", "E", "Q">>
\* sub in s, for two str
Contains(s, sub) ==
    \E i \in 0..(Len(s) - Len(sub)) : SubSeq(s, i + 1, i + Len(sub)) = sub
\* 'FREQ' in line
MentionsFREQ(ln) == \E k \in 1..Len(ln) : Contains(ln[k], FREQ)
\* line[0] == '#'
IsVcfHeader(ln) == Len(ln) > 0 /\ Len(ln[1]) > 0 /\ ln[1][1] = "#"
\* the first i with format_field[i] == 'FREQ', if there is one
HasFREQ(format_field) == \E i \in 1..Len(format_field) : format_field[i] = FREQ
FirstFREQ(format_field) ==
    (CHOOSE i \in 1..Len(format_field) :
        format_field[i] = FREQ /\ \A j \in 1..(i - 1) : format_field[j] # FREQ) - 1

\* the lines of the VCFs: two header lines and records with three FORMAT fields
VcfHeaderLines ==
    { << <<"#", "#", "f", "i", "l", "e", "f", "o", "r", "m", "a", "t">> >>,
      << <<"#", "#", "F", "O", "R", "M", "A", "T", "=", "<", "I", "D", "=", "F", "R", "E", "Q">> >> }
FormatRecord(format) ==
    << <<"1">>, <<"1", "0", "0">>, <<".">>, <<"A">>, <<"C">>, <<".">>, <<".">>, <<".">>,
       format, Somatic >>
VcfRecordLines ==
    { FormatRecord(<<"G", "T", ":", "F", "R", "E", "Q">>),
      FormatRecord(<<"F", "R", "E", "Q", ":", "G", "T">>),
      FormatRecord(<<"G", "T", ":", "G", "Q">>) }
\* header lines first, then the records
VcfFiles ==
    {f \in UNION {[1..n -> VcfHeaderLines \cup VcfRecordLines] : n \in 0..MaxVcfLines} :
        \A i \in 1..Len(f) : \A j \in 1..Len(f) : (i < j /\ IsVcfHeader(f[j])) => IsVcfHeader(f[i])}

gv_Idle ==
    /\ gv_pc = "idle" /\ VCF = <<>> /\ gv_read = 0
    /\ VAF_check = FALSE /\ gv_VAF_pos = Unassigned
gv_Init ==
    /\ gv_pc = "loop" /\ VCF \in VcfFiles /\ gv_read = 0
    /\ VAF_check = FALSE /\ gv_VAF_pos = Unassigned
\* if line[0] == '#': if 'FREQ' in line: VAF_check = True
gv_ReadHeader ==
    /\ gv_pc = "loop" /\ gv_read < Len(VCF)
    /\ IsVcfHeader(VCF[gv_read + 1])
    /\ VAF_check' = (VAF_check \/ MentionsFREQ(VCF[gv_read + 1]))
    /\ gv_read' = gv_read + 1
    /\ UNCHANGED <<gv_pc, VCF, gv_VAF_pos>>
\* else: with VAF_check, scan tokens[8].split(':') and go on with the next
\* line; without, VAF_pos = None and leave the loop
gv_ReadRecord ==
    /\ gv_pc = "loop" /\ gv_read < Len(VCF)
    /\ ~IsVcfHeader(VCF[gv_read + 1])
    /\ LET format_field == Split(At(VCF[gv_read + 1], 8), ":")
       IN  IF VAF_check
           THEN /\ gv_VAF_pos' = IF HasFREQ(format_field)
                                 THEN PyInt(FirstFREQ(format_field))
                                 ELSE gv_VAF_pos
                /\ UNCHANGED gv_pc
           ELSE /\ gv_VAF_pos' = None
                /\ gv_pc' = "break"
    /\ gv_read' = gv_read + 1
    /\ UNCHANGED <<VCF, VAF_check>>
\* return VAF_pos: UnboundLocalError when no statement has assigned it
gv_Return ==
    /\ gv_pc = "break" \/ (gv_pc = "loop" /\ gv_read = Len(VCF))
    /\ gv_pc' = IF gv_VAF_pos = Unassigned THEN "failed" ELSE "returned"
    /\ UNCHANGED <<VCF, gv_read, VAF_check, gv_VAF_pos>>

\* ------------------------------- get_peptides_from_transcripts, one transcript
\* for mutation in ht: the edits of the mutations of a haplotype on both copies
RECURSIVE EditHaplotype(_, _, _)
EditHaplotype(copies, h, vaf_pos) ==
    IF h = <<>> THEN copies
    ELSE EditHaplotype([A |-> EditCopyA(copies.A, Head(h), vaf_pos),
                        B |-> EditCopyB(copies.B, Head(h), vaf_pos),
                        somatic |-> copies.somatic \/ MutationClass(Head(h)) = "S"],
                       Tail(h), vaf_pos)
ProcessHaplotype_ResetIfSomatic(st, h, vaf_pos) ==
    LET ed == EditHaplotype([A |-> st.A, B |-> st.B, somatic |-> FALSE], h, vaf_pos)
    IN  [neo |-> IF ed.somatic THEN ExtractNeoepitopes(st.neo, ed.A, ed.B) ELSE st.neo,
         A |-> TranscriptReset(ed.A, ed.somatic),
         B |-> TranscriptReset(ed.B, ed.somatic)]
\* the body of "for ht in haplotypes"
ProcessHaplotype(st, h, vaf_pos) ==
    LET ed == EditHaplotype([A |-> st.A, B |-> st.B, somatic |-> FALSE], h, vaf_pos)
    IN  [neo |-> IF ed.somatic THEN ExtractNeoepitopes(st.neo, ed.A, ed.B) ELSE st.neo,
         A |-> TranscriptReset(ed.A, TRUE),
         B |-> TranscriptReset(ed.B, TRUE)]
RECURSIVE ProcessHaplotypeList(_, _, _)
ProcessHaplotypeList(st, hs, vaf_pos) ==
    IF hs = <<>> THEN st
    ELSE ProcessHaplotypeList(ProcessHaplotype(st, Head(hs), vaf_pos), Tail(hs), vaf_pos)
\* get_peptides_from_transcripts({t: hs}, vaf_pos, ...)
PeptidesOfTranscript(t, hs, vaf_pos) ==
    ProcessHaplotypeList([neo |-> EmptyDict,
                          A |-> Transcript(cds_dict[t], t),
                          B |-> Transcript(cds_dict[t], t)], hs, vaf_pos).neo
HasSomatic(h) == \E i \in 1..Len(h) : MutationClass(h[i]) = "S"
OneTranscript == "T1"

one_Idle ==
    /\ one_pc = "idle" /\ one_VAF_pos = None /\ haplotypes = <<>>
    /\ one_neoepitopes = EmptyDict /\ one_neoepitopes_somatic = EmptyDict
one_Init ==
    /\ one_pc = "call"
    /\ one_VAF_pos \in {None, PyInt(1)}
    /\ haplotypes \in UNION {[1..n -> HaplotypePool[OneTranscript]] : n \in 0..MaxHaplotypes}
    /\ one_neoepitopes = EmptyDict /\ one_neoepitopes_somatic = EmptyDict
\* the call on the haplotype list, and on the list without the haplotypes
\* that hold no somatic mutation
one_Call ==
    /\ one_pc = "call"
    /\ one_neoepitopes' = PeptidesOfTranscript(OneTranscript, haplotypes, one_VAF_pos)
    /\ one_neoepitopes_somatic' =
           PeptidesOfTranscript(OneTranscript, SelectSeq(haplotypes, HasSomatic), one_VAF_pos)
    /\ one_pc' = "returned"
    /\ UNCHANGED <<one_VAF_pos, haplotypes>>

\* ---------------------- get_peptides_from_transcripts, a set of transcripts
\* the body of "for affected_transcript in relevant_transcripts": two new
\* Transcript objects, then the haplotypes of the transcript
ProcessTranscript(neo, t, hs, vaf_pos) ==
    ProcessHaplotypeList([neo |-> neo,
                          A |-> Transcript(cds_dict[t], t),
                          B |-> Transcript(cds_dict[t], t)], hs, vaf_pos).neo
RECURSIVE ProcessTranscripts_LastOnly(_, _, _, _)
ProcessTranscripts_LastOnly(neo, order, rel, vaf_pos) ==
    IF order = <<>> THEN neo
    ELSE ProcessTranscripts_LastOnly(
             ProcessTranscript(EmptyDict, Head(order), rel[Head(order)], vaf_pos),
             Tail(order), rel, vaf_pos)
\* the loop over the keys of relevant_transcripts, taken in the given order
RECURSIVE ProcessTranscripts(_, _, _, _)
ProcessTranscripts(neo, order, rel, vaf_pos) ==
    IF order = <<>> THEN neo
    ELSE ProcessTranscripts(ProcessTranscript(neo, Head(order), rel[Head(order)], vaf_pos),
                            Tail(order), rel, vaf_pos)
\* haplotype lists process_haplotypes can return for transcript t
HaplotypeLists(t) == UNION {[1..n -> HaplotypePool[t]] : n \in 1..MaxHaplotypes}

ts_Idle ==
    /\ ts_pc = "idle" /\ ts_VAF_pos = None /\ relevant_transcripts = EmptyDict
    /\ ts_neoepitopes = EmptyDict /\ ts_reversed = EmptyDict /\ ts_alone = EmptyDict
ts_Init ==
    /\ ts_pc = "call"
    /\ ts_VAF_pos \in {None, PyInt(1)}
    /\ \E h1 \in HaplotypeLists("T1") : \E h3 \in HaplotypePool["T3"] :
          relevant_transcripts = [t \in PepTranscripts |-> IF t = "T1" THEN h1 ELSE <<h3>>]
    /\ ts_neoepitopes = EmptyDict /\ ts_reversed = EmptyDict /\ ts_alone = EmptyDict
\* the call on the whole mapping, with its keys in either order, and the calls
\* on the mapping of each transcript alone
ts_Call ==
    /\ ts_pc = "call"
    /\ ts_neoepitopes' =
           ProcessTranscripts(EmptyDict, <<"T1", "T3">>, relevant_transcripts, ts_VAF_pos)
    /\ ts_reversed' =
           ProcessTranscripts(EmptyDict, <<"T3", "T1">>, relevant_transcripts, ts_VAF_pos)
    /\ ts_alone' = [t \in DOMAIN relevant_transcripts |->
                       ProcessTranscripts(EmptyDict, <<t>>, relevant_transcripts, ts_VAF_pos)]
    /\ ts_pc' = "returned"
    /\ UNCHANGED <<ts_VAF_pos, relevant_transcripts>>

\* -------------------------------------------------- get_affinity_mhcflurry
\* the order of str for digits and lower-case letters, and sorted() of a list
\* of such str
CodePoints ==
    <<"0", "1", "2", "3", "4", "5", "6", "7", "8", "9",
      "a", "b", "c", "d", "e", "f", "g", "h", "i", "j", "k", "l", "m",
      "n", "o", "p", "q", "r", "s", "t", "u", "v", "w", "x", "y", "z">>
Ord(c) == CHOOSE i \in 1..Len(CodePoints) : CodePoints[i] = c
RECURSIVE PyStrLess(_, _)
PyStrLess(a, b) ==
    IF b = <<>> THEN FALSE
    ELSE IF a = <<>> THEN TRUE
    ELSE IF Head(a) # Head(b) THEN Ord(Head(a)) < Ord(Head(b))
    ELSE PyStrLess(Tail(a), Tail(b))
RECURSIVE InsertSorted(_, _)
InsertSorted(l, x) ==
    IF l = <<>> THEN <<x>>
    ELSE IF PyStrLess(x, Head(l)) THEN <<x>> \o l
    ELSE <<Head(l)>> \o InsertSorted(Tail(l), x)
RECURSIVE Sorted(_)
Sorted(l) ==
    IF l = <<>> THEN <<>> ELSE InsertSorted(Sorted(SubSeq(l, 1, Len(l) - 1)), l[Len(l)])
\* ','.join(tokens)
RECURSIVE Join(_, _)
Join(tokens, sep) ==
    IF tokens = <<>> THEN <<>>
    ELSE IF Len(tokens) = 1 THEN tokens[1]
    ELSE tokens[1] \o <<sep>> \o Join(Tail(tokens), sep)
affinity == <<"a", "f", "f", "i", "n", "i", "t", "y">>
high == <<"h", "i", "g", "h">>
low == <<"l", "o", "w">>
rank == <<"r", "a", "n", "k">>
\* the columns of the tokens that the chain of sorted(scores) == [...] cases
\* puts into score_dict[tokens[1]]; no case, no assignment
ScoreColumns(sorted) ==
    CASE sorted = <<affinity, rank>> -> <<2, 5>>
      [] sorted = <<affinity, high, low, rank>> -> <<2, 4, 3, 5>>
      [] sorted = <<affinity, high, low>> -> <<2, 4, 3>>
      [] sorted = <<affinity, high, rank>> -> <<2, 4, 5>>
      [] sorted = <<affinity, low, rank>> -> <<2, 3, 5>>
      [] sorted = <<high, low, rank>> -> <<4, 3, 3>>
      [] sorted = <<affinity, high>> -> <<2, 4>>
      [] sorted = <<affinity, low>> -> <<2, 3>>
      [] sorted = <<high, low>> -> <<4, 3>>
      [] sorted = <<high, rank>> -> <<4, 5>>
      [] sorted = <<low, rank>> -> <<3, 5>>
      [] sorted = <<affinity>> -> <<2>>
      [] sorted = <<rank>> -> <<5>>
      [] sorted = <<high>> -> <<4>>
      [] sorted = <<low>> -> <<3>>
      [] OTHER -> <<>>
\* tuple(['NA' for i in range(0, len(scores))])
NATuple(sc) == [i \in 1..Len(sc) |-> NA]
\* run_peps: the peptides of 8 to 15 residues
RunPeps(peps) == SelectSeq(peps, LAMBDA sequence : ~(Len(sequence) < 8 \/ Len(sequence) > 15))
\* the inputs: the lists of distinct scoring methods, peptides, alleles, and
\* what mhcflurry-predict may write for a peptide
MaxPeptides == 2
ScoreLists ==
    {sc \in UNION {[1..n -> {affinity, high, low, rank}] : n \in 1..4} :
        \A i, j \in 1..Len(sc) : i # j => sc[i] # sc[j]}
Peptides ==
    { <<"S", "I", "I", "N", "F", "E", "K", "L">>,
      <<"G", "I", "L", "G", "F", "V", "F", "T", "L">>,
      <<"A", "C", "D">> }
ValidAllele == <<"H", "L", "A", "-", "A", "*", "0", "2", ":", "0", "1">>
avail_alleles == {ValidAllele}
Predictions ==
    { <<StrOfInt(120), StrOfInt(90), StrOfInt(150), StrOfInt(2)>>,
      <<StrOfInt(7000), StrOfInt(6500), StrOfInt(8000), StrOfInt(40)>> }
FlurryHeader ==
    Join(<< <<"a", "l", "l", "e", "l", "e">>, <<"p", "e", "p", "t", "i", "d", "e">>,
            affinity, low, high, rank >>, ",")
\* the files mhcflurry-predict may write for run_peps: the header, then one
\* line allele,peptide,prediction,low,high,percentile per peptide
FlurryOutputs(al, run_peps) ==
    {<<FlurryHeader>> \o [i \in 1..Len(run_peps) |->
                            Join(<<al, run_peps[i]>> \o pr[i], ",")] :
        pr \in [1..Len(run_peps) -> Predictions]}

fl_Idle ==
    /\ fl_pc = "idle" /\ fl_allele = <<>> /\ scores = <<>> /\ fl_peptides = <<>>
    /\ mhc_out = <<>> /\ fl_read = 0 /\ score_dict = EmptyDict /\ affinities = <<>>
fl_Init ==
    /\ fl_pc = "allele"
    /\ fl_allele \in {ValidAllele, <<"H", "L", "A", "-", "Z">>}
    /\ scores \in ScoreLists
    /\ fl_peptides \in UNION {[1..n -> Peptides] : n \in 1..MaxPeptides}
    /\ mhc_out = <<>> /\ fl_read = 0 /\ score_dict = EmptyDict /\ affinities = <<>>
\* if allele not in avail_alleles['mhcflurry']: return the 'NA' tuples
fl_InvalidAllele ==
    /\ fl_pc = "allele" /\ fl_allele \notin avail_alleles
    /\ affinities' = [i \in 1..Len(fl_peptides) |-> NATuple(scores)]
    /\ fl_pc' = "returned"
    /\ UNCHANGED <<fl_allele, scores, fl_peptides, mhc_out, fl_read, score_dict>>
\* subprocess.check_call(command); open(mhc_out); f.readline()
fl_Predict ==
    /\ fl_pc = "allele" /\ fl_allele \in avail_alleles
    /\ mhc_out' \in FlurryOutputs(fl_allele, RunPeps(fl_peptides))
    /\ fl_read' = 1
    /\ fl_pc' = "lines"
    /\ UNCHANGED <<fl_allele, scores, fl_peptides, score_dict, affinities>>
\* for line in f: tokens = line.strip('\n').split(','); the chain of cases
fl_ReadLine ==
    /\ fl_pc = "lines" /\ fl_read < Len(mhc_out)
    /\ LET tokens == Split(mhc_out[fl_read + 1], ",")
           columns == ScoreColumns(Sorted(scores))
       IN  score_dict' =
               IF columns = <<>> THEN score_dict
               ELSE [k \in DOMAIN score_dict \cup {At(tokens, 1)} |->
                        IF k = At(tokens, 1)
                        THEN [i \in 1..Len(columns) |-> At(tokens, columns[i])]
                        ELSE score_dict[k]]
    /\ fl_read' = fl_read + 1
    /\ UNCHANGED <<fl_pc, fl_allele, scores, fl_peptides, mhc_out, affinities>>
\* for sequence in peptides: affinities.append(nM); return affinities
fl_Return ==
    /\ fl_pc = "lines" /\ fl_read = Len(mhc_out)
    /\ affinities' = [i \in 1..Len(fl_peptides) |->
                        IF fl_peptides[i] \in DOMAIN score_dict
                        THEN score_dict[fl_peptides[i]]
                        ELSE NATuple(scores)]
    /\ fl_pc' = "returned"
    /\ UNCHANGED <<fl_allele, scores, fl_peptides, mhc_out, fl_read, score_dict>>
\* ------------------------------------------- main: the affinity predictors
\* the inputs: one (program, version, scoring) of args.affinity_predictor
MaxMethods == 3
mhcflurry == <<"m", "h", "c", "f", "l", "u", "r", "r", "y">>
netMHCIIpan == <<"n", "e", "t", "M", "H", "C", "I", "I", "p", "a", "n">>
netMHCpan == <<"n", "e", "t", "M", "H", "C", "p", "a", "n">>
ScoringArgs ==
    {Join(l, ",") : l \in UNION {[1..n -> {affinity, rank, high, <<"f", "o", "o">>, <<"b", "a", "r">>}] :
                                    n \in 0..MaxMethods}}
Tools ==
    {<<t[1], t[2], sc>> :
        t \in { <<mhcflurry, <<"1">> >>, <<mhcflurry, <<"2">> >>, <<netMHCIIpan, <<"3">> >>,
                <<netMHCpan, <<"3">> >>, <<netMHCpan, <<"4">> >>, << <<"n", "e", "t", "M", "H", "C", "c", "o", "n", "s">>, <<"1">> >> },
        sc \in ScoringArgs}
\* tool_dict before the tool is looked at: empty, or with what an earlier tool
\* of the list registered
EarlierTools ==
    {EmptyDict, [k \in {"mhcflurry1"} |-> <<PyStr(mhcflurry), <<affinity>> >>]}
\* scoring.remove(method): the first occurrence goes
RemoveFirst(l, x) ==
    LET k == CHOOSE i \in 1..Len(l) : l[i] = x /\ \A j \in 1..(i - 1) : l[j] # x
    IN  SubSeq(l, 1, k - 1) \o SubSeq(l, k + 1, Len(l))
\* the key under which a supported program and version is registered
ToolName(prog, version) ==
    IF Contains(prog, mhcflurry) THEN "mhcflurry1"
    ELSE IF Contains(prog, netMHCIIpan) THEN "netMHCIIpan3"
    ELSE IF version = <<"3">> THEN "netMHCpan3" ELSE "netMHCpan4"

tv_Idle ==
    /\ tv_pc = "idle" /\ tool = <<>> /\ program = None /\ acceptable_scoring = <<>>
    /\ scoring = <<>> /\ method_index = 0 /\ tool_dict = EmptyDict
\* for tool in args.affinity_predictor: one tool is about to be looked at
tv_Init ==
    /\ tv_pc = "tool"
    /\ tool \in Tools
    /\ program = None /\ acceptable_scoring = <<>> /\ scoring = <<>> /\ method_index = 0
    /\ tool_dict \in EarlierTools
\* program = tool[0]; version = tool[1]; scoring = tool[2].split(','), then
\* the branch of the program and version up to the loop over scoring
SelectTool ==
    /\ tv_pc = "tool"
    /\ scoring' = Split(At(tool, 2), ",")
    /\ method_index' = 0
    /\ LET version == At(tool, 1)
           Start(prog, acceptable) ==
               /\ program' = prog /\ acceptable_scoring' = acceptable
               /\ tv_pc' = "methods" /\ UNCHANGED raised
           Skip ==
               /\ program' = None /\ tv_pc' = "skipped"
               /\ UNCHANGED <<acceptable_scoring, raised>>
           Raise(type) ==
               /\ raised' = Exception(type, <<>>) /\ tv_pc' = "failed"
               /\ UNCHANGED <<program, acceptable_scoring>>
       IN  IF Contains(At(tool, 0), mhcflurry)
           THEN IF version = <<"1">> /\ "mhcflurry1" \notin DOMAIN tool_dict
                THEN Start(PyStr(mhcflurry \o <<"-">> \o <<"p", "r", "e", "d", "i", "c", "t">>),
                           <<rank, affinity, high, low>>)
                ELSE IF "mhcflurry1" \in DOMAIN tool_dict THEN Raise("RuntimeError")
                ELSE Raise("NotImplementedError")
           ELSE IF Contains(At(tool, 0), netMHCIIpan)
           THEN IF version = <<"3">> /\ "netMHCIIpan3" \notin DOMAIN tool_dict
                THEN \/ Start(PyStr(netMHCIIpan \o <<"3">>), <<rank, affinity>>)
                     \/ Skip
                ELSE IF "netMHCIIpan3" \in DOMAIN tool_dict THEN Raise("RuntimeError")
                ELSE Raise("NotImplementedError")
           ELSE IF Contains(At(tool, 0), netMHCpan)
           THEN IF \/ "netMHCpan3" \notin DOMAIN tool_dict /\ version = <<"3">>
                   \/ "netMHCpan4" \notin DOMAIN tool_dict /\ version = <<"4">>
                THEN \/ Start(PyStr(At(tool, 0) \o (IF version = <<"3">> THEN version ELSE <<>>)),
                              <<rank, affinity>>)
                     \/ Skip
                ELSE IF \/ "netMHCpan3" \in DOMAIN tool_dict /\ version = <<"3">>
                        \/ "netMHCpan4" \in DOMAIN tool_dict /\ version = <<"4">>
                THEN Raise("RuntimeError")
                ELSE Raise("NotImplementedError")
           ELSE Raise("NotImplementedError")
    /\ UNCHANGED <<tool, tool_dict>>
    /\ UNCHANGED <<ph_pc, stream, line, mutation, overlapping_transcripts,
                   block_transcripts, affected_transcripts>>
\* for method in scoring: if method not in acceptable_scoring: scoring.remove(method)
\* the list iterator holds the index of the next element
ValidateMethod ==
    /\ tv_pc = "methods" /\ method_index < Len(scoring)
    /\ LET method == At(scoring, method_index)
       IN  scoring' = IF \A i \in 1..Len(acceptable_scoring) : acceptable_scoring[i] # method
                      THEN RemoveFirst(scoring, method)
                      ELSE scoring
    /\ method_index' = method_index + 1
    /\ UNCHANGED <<tv_pc, tool, program, acceptable_scoring, tool_dict>>
\* the iterator is exhausted: if len(scoring) > 0: tool_dict[name] = [program, sorted(scoring)]
RegisterTool ==
    /\ tv_pc = "methods" /\ method_index >= Len(scoring)
    /\ tool_dict' =
           IF Len(scoring) > 0
           THEN LET name == ToolName(At(tool, 0), At(tool, 1))
                IN  [k \in DOMAIN tool_dict \cup {name} |->
                        IF k = name THEN <<program, Sorted(scoring)>> ELSE tool_dict[k]]
           ELSE tool_dict
    /\ tv_pc' = "done"
    /\ UNCHANGED <<tool, program, acceptable_scoring, scoring, method_index>>
late_Idle == ts_Idle /\ fl_Idle /\ tv_Idle
aux_Idle == prep_Idle /\ gv_Idle /\ one_Idle /\ late_Idle
\* ------------------------------------------------------ the specifications
\* one mutation line of the wide pool, classified and attributed
LineInit == ph_Init /\ gp_Idle /\ main_Idle /\ aux_Idle
LineNext ==
    \/ /\ \E ln \in {HeaderLine, TerminatorLine} : SkipHeader(ln) \/ ProcessBlock(ln)
       /\ UNCHANGED <<gp_vars, main_vars, aux_vars>>
    \/ /\ \A i \in 1..Len(stream) : IsHeader(stream[i]) \/ IsTerminator(stream[i])
       /\ \E ln \in WideLines : AddMutation(ln)
       /\ UNCHANGED <<gp_vars, main_vars, aux_vars>>
    \/ ReturnHaplotypes /\ UNCHANGED <<gp_vars, main_vars, aux_vars>>
SpecLine == LineInit /\ [][LineNext]_vars

\* streams of haplotype blocks
BlocksNext ==
    \/ /\ \E ln \in BlockLines \cup {HeaderLine, TerminatorLine} :
            SkipHeader(ln) \/ ProcessBlock(ln) \/ AddMutation(ln)
       /\ UNCHANGED <<gp_vars, main_vars, aux_vars>>
    \/ ReturnHaplotypes /\ UNCHANGED <<gp_vars, main_vars, aux_vars>>
SpecBlocks == LineInit /\ [][BlocksNext]_vars

\* streams with malformed mutation lines
MalformedNext ==
    \/ /\ \E ln \in MalformedLines \cup {HeaderLine, TerminatorLine} :
            SkipHeader(ln) \/ ProcessBlock(ln) \/ AddMutation(ln) \/ FailMutation(ln)
       /\ UNCHANGED <<gp_vars, main_vars, aux_vars>>
    \/ ReturnHaplotypes /\ UNCHANGED <<gp_vars, main_vars, aux_vars>>
SpecMalformed == LineInit /\ [][MalformedNext]_vars

\* the editing loop over the haplotypes of the transcripts
PepInit == ph_Init /\ gp_Init /\ main_Idle /\ aux_Idle
PepNext ==
    \/ (\E t \in PepTranscripts : BeginTranscript(t)) /\ UNCHANGED <<ph_vars, main_vars, aux_vars>>
    \/ /\ gp_pc = "haplotypes"
       /\ \E h \in HaplotypePool[transcriptA.transcript_id] : BeginHaplotype(h)
       /\ UNCHANGED <<ph_vars, main_vars, aux_vars>>
    \/ EditMutation /\ UNCHANGED <<ph_vars, main_vars, aux_vars>>
    \/ FinishHaplotype /\ UNCHANGED <<ph_vars, main_vars, aux_vars>>
    \/ EndTranscript /\ UNCHANGED <<ph_vars, main_vars, aux_vars>>
    \/ ReturnNeoepitopes /\ UNCHANGED <<ph_vars, main_vars, aux_vars>>
SpecPep == PepInit /\ [][PepNext]_vars

\* call mode: the arguments, process_haplotypes, the start-codon policy, then
\* get_peptides_from_transcripts over the haplotypes process_haplotypes returned
MainInit == ph_Init /\ gp_Idle /\ main_Init /\ aux_Idle
MainNext ==
    \/ CallGetVAFPos
    \/ ParseKmerSize
    \/ /\ main_pc = "process_haplotypes"
       /\ \E ln \in MainLines \cup {HeaderLine, TerminatorLine} :
            SkipHeader(ln) \/ ProcessBlock(ln) \/ AddMutation(ln)
       /\ UNCHANGED <<gp_vars, main_vars, aux_vars>>
    \/ main_pc = "process_haplotypes" /\ ReturnHaplotypes /\ UNCHANGED <<gp_vars, main_vars, aux_vars>>
    \/ SelectUpstreamAtgs
    \/ CallGetPeptides
    \/ (\E t \in TranscriptIds : BeginTranscript(t)) /\ UNCHANGED <<ph_vars, main_vars, aux_vars>>
    \/ /\ gp_pc = "haplotypes"
       /\ nhap < Len(affected_transcripts[transcriptA.transcript_id])
       /\ BeginHaplotype(affected_transcripts[transcriptA.transcript_id][nhap + 1])
       /\ UNCHANGED <<ph_vars, main_vars, aux_vars>>
    \/ EditMutation /\ UNCHANGED <<ph_vars, main_vars, aux_vars>>
    \/ FinishHaplotype /\ UNCHANGED <<ph_vars, main_vars, aux_vars>>
    \/ /\ gp_pc = "haplotypes"
       /\ nhap = Len(affected_transcripts[transcriptA.transcript_id])
       /\ EndTranscript
       /\ UNCHANGED <<ph_vars, main_vars, aux_vars>>
    \/ ReturnNeoepitopes /\ UNCHANGED <<ph_vars, main_vars, aux_vars>>
    \/ FinishMain
SpecMain == MainInit /\ [][MainNext]_vars

\* prep mode: the merge of the unphased variants into the HapCUT2 output
PrepInit == ph_Init /\ gp_Idle /\ main_Idle /\ prep_Init /\ gv_Idle /\ one_Idle /\ late_Idle
PrepNext ==
    \/ CopyHapcut2 /\ UNCHANGED <<ph_vars, gp_vars, main_vars, gv_vars, one_vars, late_vars>>
    \/ InjectUnphased /\ UNCHANGED <<ph_vars, gp_vars, main_vars, gv_vars, one_vars, late_vars>>
    \/ prep_Return /\ UNCHANGED <<ph_vars, gp_vars, main_vars, gv_vars, one_vars, late_vars>>
SpecPrep == PrepInit /\ [][PrepNext]_vars

\* prep mode, then call mode on the file prep mode wrote
PipelineInit ==
    ph_Init /\ gp_Idle /\ main_Init /\ pipeline_Init /\ gv_Idle /\ one_Idle /\ late_Idle
PipelineNext ==
    \/ CopyHapcut2 /\ UNCHANGED <<ph_vars, gp_vars, main_vars, gv_vars, one_vars, late_vars>>
    \/ InjectUnphased /\ UNCHANGED <<ph_vars, gp_vars, main_vars, gv_vars, one_vars, late_vars>>
    \/ prep_Return /\ UNCHANGED <<ph_vars, gp_vars, main_vars, gv_vars, one_vars, late_vars>>
    \/ prep_pc = "returned" /\ CallGetVAFPos
    \/ ParseKmerSize
    \/ /\ main_pc = "process_haplotypes" /\ Len(stream) < Len(output_stream)
       /\ LET ln == output_stream[Len(stream) + 1]
          IN  SkipHeader(ln) \/ ProcessBlock(ln) \/ AddMutation(ln)
       /\ UNCHANGED <<gp_vars, main_vars, aux_vars>>
    \/ /\ main_pc = "process_haplotypes" /\ Len(stream) = Len(output_stream)
       /\ ReturnHaplotypes
       /\ UNCHANGED <<gp_vars, main_vars, aux_vars>>
    \/ SelectUpstreamAtgs
    \/ CallGetPeptides
    \/ (\E t \in TranscriptIds : BeginTranscript(t)) /\ UNCHANGED <<ph_vars, main_vars, aux_vars>>
    \/ /\ gp_pc = "haplotypes"
       /\ nhap < Len(affected_transcripts[transcriptA.transcript_id])
       /\ BeginHaplotype(affected_transcripts[transcriptA.transcript_id][nhap + 1])
       /\ UNCHANGED <<ph_vars, main_vars, aux_vars>>
    \/ EditMutation /\ UNCHANGED <<ph_vars, main_vars, aux_vars>>
    \/ FinishHaplotype /\ UNCHANGED <<ph_vars, main_vars, aux_vars>>
    \/ /\ gp_pc = "haplotypes"
       /\ nhap = Len(affected_transcripts[transcriptA.transcript_id])
       /\ EndTranscript
       /\ UNCHANGED <<ph_vars, main_vars, aux_vars>>
    \/ ReturnNeoepitopes /\ UNCHANGED <<ph_vars, main_vars, aux_vars>>
    \/ FinishMain
SpecPipeline == PipelineInit /\ [][PipelineNext]_vars

\* get_affinity_mhcflurry on a list of peptides and a list of scoring methods
FlurryInit ==
    ph_Init /\ gp_Idle /\ main_Idle /\ prep_Idle /\ gv_Idle /\ one_Idle
    /\ ts_Idle /\ fl_Init /\ tv_Idle
FlurryNext ==
    \/ fl_InvalidAllele /\ UNCHANGED <<ph_vars, gp_vars, main_vars, prep_vars, gv_vars, one_vars, ts_vars, tv_vars>>
    \/ fl_Predict /\ UNCHANGED <<ph_vars, gp_vars, main_vars, prep_vars, gv_vars, one_vars, ts_vars, tv_vars>>
    \/ fl_ReadLine /\ UNCHANGED <<ph_vars, gp_vars, main_vars, prep_vars, gv_vars, one_vars, ts_vars, tv_vars>>
    \/ fl_Return /\ UNCHANGED <<ph_vars, gp_vars, main_vars, prep_vars, gv_vars, one_vars, ts_vars, tv_vars>>
SpecFlurry == FlurryInit /\ [][FlurryNext]_vars

\* the validation of one affinity predictor of the command line
ToolInit ==
    ph_Init /\ gp_Idle /\ main_Idle /\ prep_Idle /\ gv_Idle /\ one_Idle
    /\ ts_Idle /\ fl_Idle /\ tv_Init
ToolNext ==
    \/ SelectTool /\ UNCHANGED <<gp_vars, main_vars, prep_vars, gv_vars, one_vars, ts_vars, fl_vars>>
    \/ ValidateMethod /\ UNCHANGED <<ph_vars, gp_vars, main_vars, prep_vars, gv_vars, one_vars, ts_vars, fl_vars>>
    \/ RegisterTool /\ UNCHANGED <<ph_vars, gp_vars, main_vars, prep_vars, gv_vars, one_vars, ts_vars, fl_vars>>
SpecTool == ToolInit /\ [][ToolNext]_vars

\* get_VAF_pos on the lines of a VCF
VAFInit == ph_Init /\ gp_Idle /\ main_Idle /\ prep_Idle /\ gv_Init /\ one_Idle /\ late_Idle
VAFNext ==
    \/ gv_ReadHeader /\ UNCHANGED <<ph_vars, gp_vars, main_vars, prep_vars, one_vars, late_vars>>
    \/ gv_ReadRecord /\ UNCHANGED <<ph_vars, gp_vars, main_vars, prep_vars, one_vars, late_vars>>
    \/ gv_Return /\ UNCHANGED <<ph_vars, gp_vars, main_vars, prep_vars, one_vars, late_vars>>
SpecVAF == VAFInit /\ [][VAFNext]_vars

\* get_peptides_from_transcripts on the haplotype list of one transcript
OneInit == ph_Init /\ gp_Idle /\ main_Idle /\ prep_Idle /\ gv_Idle /\ one_Init /\ late_Idle
OneNext == one_Call /\ UNCHANGED <<ph_vars, gp_vars, main_vars, prep_vars, gv_vars, late_vars>>
SpecOne == OneInit /\ [][OneNext]_vars

\* get_peptides_from_transcripts on the haplotype lists of two transcripts
SetInit ==
    /\ ph_Init /\ gp_Idle /\ main_Idle /\ prep_Idle /\ gv_Idle /\ one_Idle
    /\ ts_Init /\ fl_Idle /\ tv_Idle
SetNext ==
    ts_Call /\ UNCHANGED <<ph_vars, gp_vars, main_vars, prep_vars, gv_vars, one_vars,
                           fl_vars, tv_vars>>
SpecSet == SetInit /\ [][SetNext]_vars

\* ------------------------------------------------------ process_haplotypes
\* the last line read was a mutation line: mutation, overlapping_transcripts
\* and the last entries of block_transcripts are those of this line
LineIsMutation == line # <<>> /\ ~IsHeader(line) /\ ~IsTerminator(line)
LastEntry(t) == block_transcripts[t][Len(block_transcripts[t])]
Recorded(t) == t \in DOMAIN block_transcripts /\ block_transcripts[t] # <<>>

\* C1: every mutation line gets exactly one kind code, decided by the allele
\* lengths alone: V iff len(ref) = len(alt), D iff len(ref) > len(alt), I iff
\* len(ref) < len(alt); a deletion's length is |ref| - |alt|, an insertion's
\* |alt| - |ref|; the code is the one recorded for every overlapping transcript.
C1_Classification ==
    LineIsMutation =>
        LET r == Len(At(line, 5))
            a == Len(At(line, 6))
        IN  /\ mutation.mutation_type \in {"V", "D", "I"}
            /\ (mutation.mutation_type = "V") <=> (r = a)
            /\ (mutation.mutation_type = "D") <=> (r > a)
            /\ (mutation.mutation_type = "I") <=> (r < a)
            /\ (r > a) => mutation.size = r - a
            /\ (r < a) => mutation.size = a - r
            /\ \A t \in overlapping_transcripts :
                  Recorded(t) /\ At(LastEntry(t), 7) = mutation.mutation_type
C1_Witness ==
    /\ LineIsMutation /\ mutation.mutation_type = "I" /\ mutation.size = 3
    /\ Len(At(line, 5)) = 2
    /\ overlapping_transcripts # {}

\* C2: a deletion line records length len(ref) - len(alt), the anchor
\* position + (len(ref) - length), queries [anchor, anchor + length) and
\* stores the integer length as the alternate.
C2_Deletion ==
    (LineIsMutation /\ Len(At(line, 5)) > Len(At(line, 6))) =>
        LET size == Len(At(line, 5)) - Len(At(line, 6))
            anchor == IntOf(At(line, 4)) + (Len(At(line, 5)) - size)
        IN  /\ mutation.size = size
            /\ mutation.pos = anchor
            /\ mutation.end = anchor + size
            /\ overlapping_transcripts =
                  get_transcripts_from_tree(At(line, 3), anchor, anchor + size, interval_dict)
            /\ mutation.alt.py = "int" /\ mutation.alt.v = size
            /\ \A t \in overlapping_transcripts :
                  /\ Recorded(t)
                  /\ At(LastEntry(t), 1) = anchor
                  /\ At(LastEntry(t), 3) = PyInt(size)
\* position 89, two reference bases, one alternate base: the deleted base is
\* 90, the first of T1
C2_Witness ==
    /\ LineIsMutation /\ At(line, 4) = <<"8", "9">> /\ At(line, 3) = <<"1">>
    /\ Len(At(line, 5)) = 2 /\ Len(At(line, 6)) = 1
    /\ mutation.pos = 90 /\ mutation.end = 91
    /\ overlapping_transcripts = {"T1"}
    /\ At(LastEntry("T1"), 3) = PyInt(1)

\* C3: an insertion line keeps the position, stores the alternate allele
\* without its first len(ref) characters and queries [pos, pos + 1).
C3_Insertion ==
    (LineIsMutation /\ Len(At(line, 5)) < Len(At(line, 6))) =>
        LET r == Len(At(line, 5))
            a == Len(At(line, 6))
            p == IntOf(At(line, 4))
        IN  /\ mutation.pos = p
            /\ mutation.alt.py = "str"
            /\ Len(mutation.alt.v) = a - r
            /\ \A i \in 1..(a - r) : mutation.alt.v[i] = At(line, 6)[r + i]
            /\ mutation.end = p + 1
            /\ overlapping_transcripts =
                  get_transcripts_from_tree(At(line, 3), p, p + 1, interval_dict)
            /\ \A t \in overlapping_transcripts :
                  /\ Recorded(t)
                  /\ At(LastEntry(t), 1) = p
                  /\ At(LastEntry(t), 3) = mutation.alt
\* an insertion of four bases after base 118: only the anchor base is queried
C3_Witness ==
    /\ LineIsMutation /\ At(line, 4) = <<"1", "1", "8">> /\ At(line, 3) = <<"1">>
    /\ Len(At(line, 5)) = 1 /\ Len(At(line, 6)) = 5
    /\ mutation.mutation_type = "I"
    /\ Len(At(LastEntry("T1"), 3).v) = 4
    /\ mutation.end = 119

\* C4: a substitution line keeps position, reference and alternate and
\* queries [pos, pos + len(ref)).
C4_Substitution ==
    (LineIsMutation /\ Len(At(line, 5)) = Len(At(line, 6))) =>
        LET p == IntOf(At(line, 4))
        IN  /\ mutation.pos = p
            /\ mutation.ref = At(line, 5)
            /\ mutation.alt = PyStr(At(line, 6))
            /\ mutation.end = p + Len(At(line, 5))
            /\ overlapping_transcripts =
                  get_transcripts_from_tree(At(line, 3), p, p + Len(At(line, 5)),
                                            interval_dict)
            /\ \A t \in overlapping_transcripts :
                  /\ Recorded(t)
                  /\ At(LastEntry(t), 1) = p
                  /\ At(LastEntry(t), 2) = At(line, 5)
                  /\ At(LastEntry(t), 3) = PyStr(At(line, 6))
\* bases 89..91 substituted: the span reaches into T1, which starts at 90
C4_Witness ==
    /\ LineIsMutation /\ At(line, 4) = <<"8", "9">> /\ At(line, 3) = <<"1">>
    /\ Len(At(line, 5)) = 3 /\ Len(At(line, 6)) = 3 /\ At(line, 5) # At(line, 6)
    /\ mutation.mutation_type = "V"
    /\ mutation.end = 92
    /\ "T1" \in overlapping_transcripts

\* the step just taken read a line; the lines of the block that was open
\* before the step are those of stream after its last terminator
ReadStep == stream' = Append(stream, line')
RECURSIVE OpenBlock(_)
OpenBlock(st) ==
    IF st = <<>> \/ IsTerminator(st[Len(st)]) THEN <<>>
    ELSE IF IsHeader(st[Len(st)]) THEN OpenBlock(SubSeq(st, 1, Len(st) - 1))
    ELSE Append(OpenBlock(SubSeq(st, 1, Len(st) - 1)), st[Len(st)])
Overlaps(ln, t) ==
    t \in get_transcripts_from_tree(At(ln, 3), ClassifyLine(ln).pos, ClassifyLine(ln).end,
                                    interval_dict)
EntryOfLine(ln) == MutationEntry(ln, ClassifyLine(ln))
\* the entries of the lines of a block that overlap t, in stream order
BlockEntries(lines, t) ==
    LET own == SelectSeq(lines, LAMBDA ln : Overlaps(ln, t))
    IN  [i \in 1..Len(own) |-> EntryOfLine(own[i])]
Count(s, x) == Cardinality({i \in 1..Len(s) : s[i] = x})
SameEntries(a, b) ==
    /\ Len(a) = Len(b)
    /\ \A i \in 1..Len(a) : Count(a, a[i]) = Count(b, a[i])

\* C5: the mutation of a line is appended to the accumulator of transcript t
\* iff the interval query for its chromosome and span returns t; the span
\* [100,105) of chromosome 1 goes to T1 = [90,120) and not to T2 = [200,210);
\* every overlapping transcript gets it once.
C5_Attribution ==
    [][(ReadStep /\ LineIsMutation') =>
        /\ \A t \in TranscriptIds :
              IF t \in get_transcripts_from_tree(At(line', 3), mutation'.pos, mutation'.end,
                                                 interval_dict)
              THEN /\ t \in DOMAIN block_transcripts'
                   /\ block_transcripts'[t] =
                         Append(DictGet(block_transcripts, t), MutationEntry(line', mutation'))
              ELSE /\ t \in DOMAIN block_transcripts' <=> t \in DOMAIN block_transcripts
                   /\ DictGet(block_transcripts', t) = DictGet(block_transcripts, t)
        /\ (At(line', 3) = <<"1">> /\ mutation'.pos = 100 /\ mutation'.end = 105) =>
              /\ Len(DictGet(block_transcripts', "T1")) = Len(DictGet(block_transcripts, "T1")) + 1
              /\ DictGet(block_transcripts', "T2") = DictGet(block_transcripts, "T2")
      ]_vars
\* [100,105) read after a mutation of T2: T1 and T3 have it once, T2 has not
C5_Witness ==
    /\ LineIsMutation /\ At(line, 3) = <<"1">> /\ mutation.pos = 100 /\ mutation.end = 105
    /\ Len(stream) = 2
    /\ Recorded("T1") /\ Len(block_transcripts["T1"]) = 1
    /\ Recorded("T3") /\ Len(block_transcripts["T3"]) = 1
    /\ Recorded("T2") /\ Len(block_transcripts["T2"]) = 1
    /\ At(LastEntry("T2"), 1) = 205

\* C6: a terminator line emits, for each transcript with accumulated
\* mutations, exactly one haplotype with exactly the mutations of the block
\* just closed, changes no other transcript and clears the accumulator.
C6_BlockEmission ==
    [][(ReadStep /\ IsTerminator(line')) =>
        /\ \A t \in TranscriptIds :
              LET own == BlockEntries(OpenBlock(stream), t)
                  was == DictGet(affected_transcripts, t)
                  now == DictGet(affected_transcripts', t)
              IN  IF own # <<>>
                  THEN /\ t \in DOMAIN affected_transcripts'
                       /\ Len(now) = Len(was) + 1
                       /\ SubSeq(now, 1, Len(was)) = was
                       /\ SameEntries(now[Len(now)], own)
                  ELSE /\ t \in DOMAIN affected_transcripts' <=> t \in DOMAIN affected_transcripts
                       /\ now = was
        /\ block_transcripts' = EmptyDict
      ]_vars
\* two blocks closed, each with one mutation of T1: two haplotypes of one
\* mutation each
C6_Witness ==
    /\ Len(stream) = 4 /\ IsTerminator(line)
    /\ IsTerminator(stream[2])
    /\ "T1" \in DOMAIN affected_transcripts
    /\ Len(affected_transcripts["T1"]) = 2
    /\ Len(affected_transcripts["T1"][1]) = 1
    /\ Len(affected_transcripts["T1"][2]) = 1
    /\ affected_transcripts["T1"][1] # affected_transcripts["T1"][2]
    /\ block_transcripts = EmptyDict

\* the span of a recorded mutation, from its kind code
EntryEnd(m) ==
    At(m, 1) + (IF At(m, 7) = "V" THEN Len(At(m, 2))
                ELSE IF At(m, 7) = "D" THEN At(m, 3).v ELSE 1)
\* C7: in every haplotype of the result the positions are non-decreasing,
\* whatever the order of the block's lines, and the haplotype is stored under
\* the one transcript whose mutations it holds.
C7_SortedHaplotypes ==
    \A t \in DOMAIN affected_transcripts :
        \A k \in 1..Len(affected_transcripts[t]) :
            LET h == affected_transcripts[t][k]
            IN  /\ h # <<>>
                /\ \A i \in 1..(Len(h) - 1) : At(h[i], 1) <= At(h[i + 1], 1)
                /\ \A i \in 1..Len(h) :
                      t \in get_transcripts_from_tree(At(h[i], 0), At(h[i], 1), EntryEnd(h[i]),
                                                      interval_dict)
\* the deletion anchored at 100 read before the substitution at 95
C7_Witness ==
    /\ Len(stream) = 3 /\ IsTerminator(line)
    /\ Len(stream[1]) >= 8 /\ Len(stream[2]) >= 8
    /\ At(stream[1], 4) = <<"9", "9">> /\ At(stream[2], 4) = <<"9", "5">>
    /\ "T1" \in DOMAIN affected_transcripts
    /\ Len(affected_transcripts["T1"]) = 1
    /\ Len(affected_transcripts["T1"][1]) = 2
    /\ At(affected_transcripts["T1"][1][1], 1) = 95
    /\ At(affected_transcripts["T1"][1][2], 1) = 100

\* ------------------------------------------- get_peptides_from_transcripts
\* the step just taken handled mutation At(ht, mi); the step just taken closed
\* haplotype ht
EditStep == gp_pc = "mutations" /\ mi' = mi + 1
FinishStep == gp_pc = "mutations" /\ gp_pc' = "haplotypes"
OnCopyA(mut) == At(mut, 4) = <<"1">>
OnCopyB(mut) == At(mut, 5) = <<"1">>
IsGermline(mut) == At(mut, 6)[Len(At(mut, 6))] = "*"
AllGermline(h) == \A i \in 1..Len(h) : IsGermline(h[i])
LastEdit(tr) == tr.edits[Len(tr.edits)]

\* C8: a mutation is edited into copy A iff its copy-A flag is '1' and into
\* copy B iff its copy-B flag is '1'; a mutation of copy A alone leaves copy B
\* as it was.
C8_Zygosity ==
    [][EditStep =>
        LET mut == At(ht, mi)
        IN  /\ IF OnCopyA(mut)
               THEN /\ Len(transcriptA'.edits) = Len(transcriptA.edits) + 1
                    /\ SubSeq(transcriptA'.edits, 1, Len(transcriptA.edits)) = transcriptA.edits
                    /\ LastEdit(transcriptA').pos = At(mut, 1)
                    /\ LastEdit(transcriptA').seq = At(mut, 3)
               ELSE transcriptA' = transcriptA
            /\ IF OnCopyB(mut)
               THEN /\ Len(transcriptB'.edits) = Len(transcriptB.edits) + 1
                    /\ SubSeq(transcriptB'.edits, 1, Len(transcriptB.edits)) = transcriptB.edits
                    /\ LastEdit(transcriptB').pos = At(mut, 1)
                    /\ LastEdit(transcriptB').seq = At(mut, 3)
               ELSE transcriptB' = transcriptB
      ]_vars
\* two mutations of copy A alone have been edited: copy B has no edit
C8_Witness ==
    /\ gp_pc = "mutations" /\ mi = 2 /\ Len(ht) = 2
    /\ OnCopyA(ht[1]) /\ ~OnCopyB(ht[1])
    /\ OnCopyA(ht[2]) /\ ~OnCopyB(ht[2])
    /\ Len(transcriptA.edits) = 2
    /\ transcriptB.edits = <<>>

\* C9: both copies are the reference again after every haplotype, somatic or
\* not: between haplotypes neither copy holds an edit, and while a haplotype is
\* edited each copy holds only the edits of this haplotype's mutations so far.
C9_ResetBetweenHaplotypes ==
    /\ (gp_pc \in {"haplotypes", "transcripts", "returned"} \/ (gp_pc = "mutations" /\ mi = 0)) =>
          (transcriptA.edits = <<>> /\ transcriptB.edits = <<>>)
    /\ gp_pc = "mutations" =>
          /\ Len(transcriptA.edits) = Cardinality({i \in 1..mi : OnCopyA(ht[i])})
          /\ Len(transcriptB.edits) = Cardinality({i \in 1..mi : OnCopyB(ht[i])})
\* the second haplotype of a transcript starts after a first one that had
\* germline mutations only, on both copies
C9_Witness ==
    /\ gp_pc = "haplotypes" /\ nhap = 1
    /\ Len(ht) = 2 /\ AllGermline(ht)
    /\ OnCopyA(ht[1]) /\ OnCopyB(ht[1])
    /\ ~enumerated
    /\ transcriptA.edits = <<>> /\ transcriptB.edits = <<>>

\* C10: closing a haplotype whose mutations are all germline invokes no
\* enumerator and leaves the result as it was; the enumerator is invoked
\* exactly for the haplotypes with a somatic mutation.
C10_GermlineOnly ==
    [][FinishStep =>
        /\ enumerated' <=> ~AllGermline(ht)
        /\ AllGermline(ht) => neoepitopes' = neoepitopes
      ]_vars
\* a germline haplotype closed after a somatic one of the same transcript
C10_Witness ==
    /\ gp_pc = "haplotypes" /\ nhap = 2
    /\ AllGermline(ht) /\ OnCopyA(ht[1])
    /\ ~enumerated
    /\ neoepitopes # EmptyDict

\* C11: the list stored for a peptide never holds the same metadata tuple
\* twice; closing a haplotype keeps the tuples already stored, leaves exactly
\* one tuple for every (peptide, mutation) either copy produced, and every
\* tuple it adds ends with the id of the transcript being processed.
NoDuplicateTuples ==
    \A pep \in DOMAIN neoepitopes :
        \A i, j \in 1..Len(neoepitopes[pep]) :
            neoepitopes[pep][i] = neoepitopes[pep][j] => i = j
ProducedBy(tr, pep) ==
    IF pep \in DOMAIN TranscriptNeopeptides(tr)
    THEN {TranscriptNeopeptides(tr)[pep][i] \o <<tr.transcript_id>> :
            i \in 1..Len(TranscriptNeopeptides(tr)[pep])}
    ELSE {}
C11_Deduplication ==
    /\ []NoDuplicateTuples
    /\ [][FinishStep =>
            /\ DOMAIN neoepitopes \subseteq DOMAIN neoepitopes'
            /\ \A pep \in DOMAIN neoepitopes' :
                 LET old == DictGet(neoepitopes, pep)
                     new == neoepitopes'[pep]
                 IN  /\ Len(old) <= Len(new)
                     /\ SubSeq(new, 1, Len(old)) = old
                     /\ \A i \in (Len(old) + 1)..Len(new) :
                          new[i][Len(new[i])] = transcriptA.transcript_id
                     /\ somatic_in_haplotype =>
                          \A tup \in ProducedBy(transcriptA, pep) \cup ProducedBy(transcriptB, pep) :
                              Count(new, tup) = 1
       ]_vars
\* a somatic mutation on both copies has been enumerated in a second haplotype:
\* copy A and copy B both produced its tuple, and the peptide holds it once
C11_Witness ==
    /\ gp_pc = "haplotypes" /\ nhap = 2 /\ enumerated
    /\ Len(ht) = 1 /\ OnCopyA(ht[1]) /\ OnCopyB(ht[1]) /\ ~IsGermline(ht[1])
    /\ DOMAIN neoepitopes = {<<<<At(ht[1], 7), At(ht[1], 1), At(ht[1], 3)>>>>}
    /\ \A pep \in DOMAIN neoepitopes : Len(neoepitopes[pep]) = 1

\* ------------------------------------------------------------ main, call mode
\* C12: when the start-codon policy is not a supported value, the error is
\* raised before any transcript processing: at that moment the haplotype
\* stream has not been read into per-transcript haplotypes and no transcript
\* has been constructed or edited.
C12_PolicyErrorFirst ==
    raised.type = "RuntimeError" =>
        /\ ph_pc = "loop" /\ stream = <<>> /\ affected_transcripts = EmptyDict
        /\ gp_pc = "idle" /\ transcriptA = NoTranscript /\ transcriptB = NoTranscript

\* C13: for a comma-separated list of two or more positive integer sizes the
\* enumerator is given the numerically smallest size as min_size and the
\* numerically largest as max_size.
SuppliedSizes == {IntOf(Split(kmer_size, ",")[i]) : i \in 1..Len(Split(kmer_size, ","))}
C13_SizeBounds ==
    (enumerated /\ size_list.bound) =>
        /\ \A n \in SuppliedSizes : EnumeratorMinSize(size_list.v) <= n
        /\ \A n \in SuppliedSizes : n <= EnumeratorMaxSize(size_list.v)
        /\ EnumeratorMinSize(size_list.v) \in SuppliedSizes
        /\ EnumeratorMaxSize(size_list.v) \in SuppliedSizes

\* ------------------------------------------------------- malformed lines
\* C14: a mutation line whose position is not an integer or that has fewer
\* than eight fields makes process_haplotypes fail at that line with an error
\* that identifies the line, and no haplotype is returned.
IsMalformed(ln) ==
    ~IsHeader(ln) /\ ~IsTerminator(ln) /\ (Len(ln) < 8 \/ ~IsIntLiteral(At(ln, 4)))
C14_MalformedLine ==
    \A i \in 1..Len(stream) :
        IsMalformed(stream[i]) =>
            /\ i = Len(stream)
            /\ ph_pc = "failed"
            /\ raised.type # ""
            /\ raised.args = stream[i]

\* ------------------------------------------- mutations outside every transcript
IsMutationLine(ln) == ~IsHeader(ln) /\ ~IsTerminator(ln)
NoOverlap(ln) == \A t \in TranscriptIds : ~Overlaps(ln, t)
InSomeHaplotype(entry) ==
    \E t \in DOMAIN affected_transcripts :
        \E h \in 1..Len(affected_transcripts[t]) :
            \E k \in 1..Len(affected_transcripts[t][h]) : affected_transcripts[t][h][k] = entry
\* C15: a mutation that overlaps no transcript raises no error, is recorded
\* for no transcript and is in no haplotype; closing a block all of whose
\* mutations overlap no transcript emits no haplotype and creates no entry.
C15_NoTranscript ==
    /\ [](\A i \in 1..Len(stream) :
            (IsMutationLine(stream[i]) /\ NoOverlap(stream[i])) =>
                ~InSomeHaplotype(EntryOfLine(stream[i])))
    /\ [][(ReadStep /\ IsMutationLine(line') /\ NoOverlap(line')) =>
            /\ raised' = NoException /\ ph_pc' = "loop"
            /\ overlapping_transcripts' = {}
            /\ block_transcripts' = block_transcripts
       ]_vars
    /\ [][(ReadStep /\ IsTerminator(line')
             /\ \A i \in 1..Len(OpenBlock(stream)) : NoOverlap(OpenBlock(stream)[i])) =>
            /\ affected_transcripts' = affected_transcripts
            /\ raised' = NoException /\ ph_pc' = "loop"
       ]_vars
\* a block of one mutation outside every transcript was closed, then a block
\* of one mutation of T1: the first left no entry, T1 has one haplotype
C15_Witness ==
    /\ Len(stream) = 4 /\ IsTerminator(stream[2]) /\ IsTerminator(stream[4])
    /\ IsMutationLine(stream[1]) /\ NoOverlap(stream[1])
    /\ IsMutationLine(stream[3]) /\ Overlaps(stream[3], "T1")
    /\ raised = NoException /\ ph_pc = "loop"
    /\ DOMAIN affected_transcripts = {"T1"}
    /\ affected_transcripts["T1"] = << <<EntryOfLine(stream[3])>> >>

\* ----------------------------------------------------- origin class and VAF
\* C16: a mutation is given to the editor as germline ('G') iff the last
\* character of its genotype string is '*' and as somatic ('S') otherwise; the
\* haplotype counts as holding a somatic mutation iff one of the mutations
\* edited so far is somatic.
C16_OriginClass ==
    /\ [](gp_pc = "mutations" =>
            (somatic_in_haplotype <=> \E i \in 1..mi : ~IsGermline(ht[i])))
    /\ [][EditStep =>
            LET mut == At(ht, mi)
                cls == IF IsGermline(mut) THEN "G" ELSE "S"
            IN  /\ OnCopyA(mut) => LastEdit(transcriptA').mutation_class = cls
                /\ OnCopyB(mut) => LastEdit(transcriptB').mutation_class = cls
       ]_vars
\* a germline mutation, then a somatic one, both on both copies
C16_Witness ==
    /\ gp_pc = "mutations" /\ mi = 2 /\ Len(ht) = 2
    /\ IsGermline(ht[1]) /\ ~IsGermline(ht[2])
    /\ OnCopyA(ht[1]) /\ OnCopyB(ht[1]) /\ OnCopyA(ht[2]) /\ OnCopyB(ht[2])
    /\ transcriptA.edits[1].mutation_class = "G" /\ transcriptA.edits[2].mutation_class = "S"
    /\ transcriptB.edits[1].mutation_class = "G" /\ transcriptB.edits[2].mutation_class = "S"
    /\ somatic_in_haplotype

\* the colon-delimited subfields of a genotype string, without the germline
\* marker, and the number in subfield k without its percent sign
Subfields(genotype) ==
    Split(IF genotype[Len(genotype)] = "*" THEN SubSeq(genotype, 1, Len(genotype) - 1)
          ELSE genotype, ":")
SubfieldValue(genotype, k) ==
    LET f == Subfields(genotype)[k + 1]
    IN  IntOf(IF f[Len(f)] = "%" THEN SubSeq(f, 1, Len(f) - 1) ELSE f)
\* C17: without a VAF position every edit on both copies is made with no VAF;
\* with a position, the VAF of an edit is the value of the genotype subfield
\* at that 0-based offset (25 for "0/1:25%", 30 for "0/1:30%*" at offset 1),
\* the same on copy A and on copy B.
C17_VAF ==
    [][EditStep =>
        LET mut == At(ht, mi)
            vaf == IF VAF_pos = None THEN None
                   ELSE PyFloat(SubfieldValue(At(mut, 6), VAF_pos.v))
        IN  /\ OnCopyA(mut) => LastEdit(transcriptA').vaf = vaf
            /\ OnCopyB(mut) => LastEdit(transcriptB').vaf = vaf
            /\ (VAF_pos = PyInt(1) /\ At(mut, 6) = Somatic) => vaf = PyFloat(25)
            /\ (VAF_pos = PyInt(1) /\ At(mut, 6) = Germline) => vaf = PyFloat(30)
      ]_vars
\* with FREQ at offset 1, a germline mutation on both copies: both edits carry 30
C17_Witness ==
    /\ gp_pc = "mutations" /\ mi = 1 /\ VAF_pos = PyInt(1)
    /\ OnCopyA(ht[1]) /\ OnCopyB(ht[1]) /\ IsGermline(ht[1])
    /\ LastEdit(transcriptA).vaf = PyFloat(30)
    /\ LastEdit(transcriptB).vaf = PyFloat(30)

\* ------------------------------------------------------ prep_hapcut_output
\* the alleles (chromosome, position, ref, alt) on the mutation lines of the
\* HapCUT2 output, and the lines of the pseudo-blocks printed for an allele
OnHapcut2(key) ==
    \E i \in 1..Len(hapcut2_stream) :
        /\ ~IsHeader(hapcut2_stream[i]) /\ ~IsTerminator(hapcut2_stream[i])
        /\ <<At(hapcut2_stream[i], 3), IntOf(At(hapcut2_stream[i], 4)),
             At(hapcut2_stream[i], 5), At(hapcut2_stream[i], 6)>> = key
PseudoBlocks(key) ==
    {i \in (Len(hapcut2_stream) + 3)..(Len(output_stream) - 1) :
        /\ output_stream[i - 1] = UnphasedHeader
        /\ IsTerminator(output_stream[i + 1])
        /\ Len(output_stream[i]) = 10
        /\ <<At(output_stream[i], 3), IntOf(At(output_stream[i], 4)),
             At(output_stream[i], 5), At(output_stream[i], 6)>> = key}
\* C18: when prep_hapcut_output has returned, an allele of the VCF that is on
\* a mutation line of the HapCUT2 output has no pseudo-block, and every other
\* allele, each allele of a multi-allelic record included, has exactly one
\* pseudo-block (header, mutation line, terminator) whose alternate field is
\* that allele.
C18_UnphasedInjection ==
    prep_pc = "returned" =>
        \A k \in 1..Len(vcf_stream) :
            LET alt_alleles == Split(At(vcf_stream[k], 4), ",")
            IN  \A a \in 1..Len(alt_alleles) :
                    LET key == <<At(vcf_stream[k], 0), IntOf(At(vcf_stream[k], 1)),
                                 At(vcf_stream[k], 3), alt_alleles[a]>>
                    IN  Cardinality(PseudoBlocks(key)) = IF OnHapcut2(key) THEN 0 ELSE 1

\* ------------------------------------------------------------- get_VAF_pos
RecordsWithFREQ == {i \in 1..Len(VCF) : ~IsVcfHeader(VCF[i]) /\ HasFREQ(Split(At(VCF[i], 8), ":"))}
HeaderMentionsFREQ == \E i \in 1..Len(VCF) : IsVcfHeader(VCF[i]) /\ MentionsFREQ(VCF[i])
\* C19: get_VAF_pos returns a value for every VCF: None when neither the header
\* nor a record's format field mentions FREQ, and the 0-based offset of FREQ in
\* a record's format field when the header and a record have it.
C19_VAFPos ==
    gv_pc \in {"returned", "failed"} =>
        /\ gv_pc = "returned"
        /\ (~HeaderMentionsFREQ /\ RecordsWithFREQ = {}) => gv_VAF_pos = None
        /\ (HeaderMentionsFREQ /\ RecordsWithFREQ # {}) =>
              \E i \in RecordsWithFREQ :
                  gv_VAF_pos = PyInt(FirstFREQ(Split(At(VCF[i], 8), ":")))

\* ------------------------------------------------- somatic-free haplotypes
\* C20: the result for the haplotype list of a transcript is the result for
\* the list without the haplotypes that hold no somatic mutation.
C20_SomaticFree ==
    one_pc = "returned" => one_neoepitopes = one_neoepitopes_somatic
\* a haplotype of two germline mutations before a haplotype with a somatic one
C20_Witness ==
    /\ one_pc = "returned" /\ Len(haplotypes) = 2
    /\ Len(haplotypes[1]) = 2 /\ AllGermline(haplotypes[1])
    /\ OnCopyA(haplotypes[1][1]) /\ OnCopyB(haplotypes[1][2])
    /\ ~AllGermline(haplotypes[2])
    /\ one_neoepitopes # EmptyDict

\* ------------------------------------------------------- order of the edits
\* the edits a copy holds are those of the mutations ms, in the order of ms
EditsAre(tr, ms) ==
    /\ Len(tr.edits) = Len(ms)
    /\ \A i \in 1..Len(ms) :
         /\ tr.edits[i].pos = At(ms[i], 1)
         /\ tr.edits[i].seq = At(ms[i], 3)
         /\ tr.edits[i].mutation_type = At(ms[i], 7)
AscendingEdits(tr) ==
    \A i \in 1..(Len(tr.edits) - 1) : tr.edits[i].pos <= tr.edits[i + 1].pos
\* C21: while a haplotype returned by process_haplotypes is edited, the edits
\* of copy A (copy B) are those of the mutations read so far whose A (B) flag
\* is set, in the order of the haplotype, which is ascending position.
C21_EditOrder ==
    gp_pc = "mutations" =>
        /\ EditsAre(transcriptA, SelectSeq(SubSeq(ht, 1, mi), OnCopyA))
        /\ EditsAre(transcriptB, SelectSeq(SubSeq(ht, 1, mi), OnCopyB))
        /\ AscendingEdits(transcriptA) /\ AscendingEdits(transcriptB)
\* the block listed position 104 before position 100: copy A holds the edit of
\* 100, then that of 104; copy B, whose flag only the second has, holds 104
C21_Witness ==
    /\ gp_pc = "mutations" /\ mi = 2 /\ Len(ht) = 2
    /\ Len(stream) >= 3 /\ IsTerminator(stream[3])
    /\ ~IsHeader(stream[1]) /\ ~IsTerminator(stream[1]) /\ IntOf(At(stream[1], 4)) = 104
    /\ ~IsHeader(stream[2]) /\ ~IsTerminator(stream[2]) /\ IntOf(At(stream[2], 4)) = 100
    /\ Len(transcriptA.edits) = 2
    /\ transcriptA.edits[1].pos = 100 /\ transcriptA.edits[2].pos = 104
    /\ Len(transcriptB.edits) = 1 /\ transcriptB.edits[1].pos = 104

\* ------------------------------------------------ transcripts are independent
TupleSet(neo, pep) == {DictGet(neo, pep)[i] : i \in 1..Len(DictGet(neo, pep))}
\* C22: the result for a set of transcripts holds, for every peptide, exactly
\* the metadata tuples of the results of the transcripts taken alone, and the
\* same in either processing order.
C22_Independence ==
    ts_pc = "returned" =>
        /\ DOMAIN ts_neoepitopes = UNION {DOMAIN ts_alone[t] : t \in DOMAIN ts_alone}
        /\ DOMAIN ts_reversed = DOMAIN ts_neoepitopes
        /\ \A pep \in DOMAIN ts_neoepitopes :
             /\ TupleSet(ts_neoepitopes, pep)
                  = UNION {TupleSet(ts_alone[t], pep) : t \in DOMAIN ts_alone}
             /\ TupleSet(ts_reversed, pep) = TupleSet(ts_neoepitopes, pep)
             /\ Len(ts_neoepitopes[pep]) = Cardinality(TupleSet(ts_neoepitopes, pep))
\* a peptide of both transcripts: its list holds tuples of T1 and of T3, in
\* the order of processing
C22_Witness ==
    /\ ts_pc = "returned"
    /\ \E pep \in DOMAIN ts_neoepitopes :
         /\ pep \in DOMAIN ts_alone["T1"] /\ pep \in DOMAIN ts_alone["T3"]
         /\ ts_neoepitopes[pep] # ts_reversed[pep]
         /\ Len(ts_neoepitopes[pep]) = 2

\* ------------------------------------------------------ start-codon policy
Flags == <<only_novel_upstream, only_downstream, only_reference>>
PolicyFlags(policy) ==
    CASE policy = "novel" -> <<TRUE, FALSE, FALSE>>
      [] policy = "all" -> <<FALSE, FALSE, FALSE>>
      [] policy = "none" -> <<FALSE, TRUE, FALSE>>
      [] policy = "reference" -> <<FALSE, FALSE, TRUE>>
\* C23: once the policy is selected, the flag triple is that of the selector
\* value: novel sets only only_novel_upstream, none only only_downstream,
\* reference only only_reference, all sets none; at most one flag is true and
\* the triples of two different policies differ.
C23_PolicyFlags ==
    main_pc \in {"get_peptides", "done"} =>
        /\ upstream_atgs \in {"novel", "all", "none", "reference"}
        /\ Flags = PolicyFlags(upstream_atgs)
        /\ Cardinality({i \in 1..3 : Flags[i]}) <= 1
        /\ \A other \in {"novel", "all", "none", "reference"} \ {upstream_atgs} :
              Flags # PolicyFlags(other)
\* the policy 'none' is selected and the peptides are being enumerated
C23_Witness ==
    /\ main_pc = "get_peptides" /\ gp_pc = "mutations"
    /\ upstream_atgs = "none"
    /\ ~only_novel_upstream /\ only_downstream /\ ~only_reference

\* ------------------------------------------------- emission on terminators
\* the lines of the blocks already closed: the stream up to its last terminator
RECURSIVE ClosedBlocks(_)
ClosedBlocks(st) ==
    IF st = <<>> \/ IsTerminator(st[Len(st)]) THEN st
    ELSE ClosedBlocks(SubSeq(st, 1, Len(st) - 1))
MutationLines(st) == SelectSeq(st, IsMutationLine)
RECURSIVE Flatten(_)
Flatten(hs) == IF hs = <<>> THEN <<>> ELSE Head(hs) \o Flatten(Tail(hs))
\* C24: haplotypes are emitted only on terminator lines: a header line leaves
\* the accumulator and the result unchanged, the result changes on no other
\* step than the reading of a terminator, every mutation line of a closed
\* block that overlaps t is in the haplotypes of t as often as it is in the
\* stream (once, in one haplotype, for a line read once), and the mutations
\* read after the last terminator are in no haplotype, also after the return.
C24_EmitOnTerminator ==
    /\ [][(ReadStep /\ IsHeader(line')) =>
              UNCHANGED <<block_transcripts, affected_transcripts>>]_vars
    /\ [][(affected_transcripts' # affected_transcripts) =>
              (ReadStep /\ ~IsHeader(line') /\ IsTerminator(line'))]_vars
    /\ [](LET closed == MutationLines(ClosedBlocks(stream))
          IN  \A t \in TranscriptIds :
                 SameEntries(Flatten(DictGet(affected_transcripts, t)),
                             BlockEntries(closed, t)))
\* returned with a header, a closed block of one mutation of T1 and another
\* mutation of T1 after the terminator: one haplotype, without the last line
C24_Witness ==
    /\ ph_pc = "returned" /\ Len(stream) = 4
    /\ IsHeader(stream[1]) /\ IsMutationLine(stream[2]) /\ Overlaps(stream[2], "T1")
    /\ IsTerminator(stream[3])
    /\ IsMutationLine(stream[4]) /\ Overlaps(stream[4], "T1") /\ stream[4] # stream[2]
    /\ affected_transcripts["T1"] = <<(<<EntryOfLine(stream[2])>>)>>
    /\ block_transcripts["T1"] = <<EntryOfLine(stream[4])>>

\* ------------------------------------------------- unphased variants, copy A
\* the mutation lines of the pseudo-blocks of the merged file
InjectedLines ==
    {output_stream[i] : i \in {j \in 2..Len(output_stream) :
                                  output_stream[j - 1] = UnphasedHeader}}
Injected(mut) == \E ln \in InjectedLines : EntryOfLine(ln) = mut
\* C25: every injected unphased variant is written with copy-A flag 1 and
\* copy-B flag 0, and when call mode edits it, whatever its genotype field,
\* copy A gets the edit and copy B is left as it was.
C25_UnphasedOnCopyA ==
    /\ [](\A ln \in InjectedLines : At(ln, 1) = <<"1">> /\ At(ln, 2) = <<"0">>)
    /\ [][(EditStep /\ Injected(At(ht, mi))) =>
            /\ Len(transcriptA'.edits) = Len(transcriptA.edits) + 1
            /\ LastEdit(transcriptA').pos = At(At(ht, mi), 1)
            /\ LastEdit(transcriptA').seq = At(At(ht, mi), 3)
            /\ transcriptB' = transcriptB
          ]_vars
\* the homozygous record of position 100, unphased, has been edited: copy A
\* has one edit, copy B none
C25_Witness ==
    /\ gp_pc = "mutations" /\ mi = 1 /\ Len(ht) = 1
    /\ hapcut2_stream = <<>>
    /\ Injected(ht[1]) /\ At(ht[1], 6) = Homozygous
    /\ Len(transcriptA.edits) = 1 /\ transcriptA.edits[1].pos = 100
    /\ transcriptB.edits = <<>>

\* ----------------------------------------------------- mhcflurry score tuples
\* the requested kinds in sorted order, the column of each kind, and the
\* last line of the predictor's output for a peptide
RequestedKinds == SelectSeq(<<affinity, high, low, rank>>,
                            LAMBDA k : \E i \in 1..Len(scores) : scores[i] = k)
KindColumn(k) == IF k = affinity THEN 2 ELSE IF k = low THEN 3 ELSE IF k = high THEN 4 ELSE 5
RowsOf(sequence) ==
    {i \in 2..Len(mhc_out) : At(Split(mhc_out[i], ","), 1) = sequence}
LastRowOf(sequence) ==
    Split(mhc_out[CHOOSE i \in RowsOf(sequence) : \A j \in RowsOf(sequence) : j <= i], ",")
\* C26: for every non-empty set of requested kinds, the tuple returned for a
\* scored peptide has one component per requested kind, in sorted kind order,
\* each the value of the column of its kind (affinity 2, low 3, high 4, rank 5).
C26_OwnColumns ==
    (fl_pc = "returned" /\ fl_allele \in avail_alleles) =>
        \A i \in 1..Len(fl_peptides) :
            RowsOf(fl_peptides[i]) # {} =>
                /\ Len(affinities[i]) = Len(RequestedKinds)
                /\ \A k \in 1..Len(RequestedKinds) :
                      affinities[i][k] =
                          At(LastRowOf(fl_peptides[i]), KindColumn(RequestedKinds[k]))

\* ------------------------------------------------ scoring-method validation
AcceptableFor(name) ==
    IF name = "mhcflurry1" THEN {rank, affinity, high, low} ELSE {rank, affinity}
\* C27: when the validation of a tool is over, every registered scoring list
\* holds acceptable methods only, whatever the input list (two or more
\* unacceptable methods in a row included), and the tool is registered only if
\* an acceptable method remains.
C27_OnlyAcceptable ==
    tv_pc = "done" =>
        \A name \in DOMAIN tool_dict :
            /\ Len(tool_dict[name][2]) > 0
            /\ \A i \in 1..Len(tool_dict[name][2]) :
                  tool_dict[name][2][i] \in AcceptableFor(name)

====
